---- MODULE Spec2Model ----
(***************************************************************************)
(* A model of the recipe scanner's text core: the ingredient parser        *)
(* (parseIngredients), the step parser (parseSteps) and the scaling engine *)
(* (scaleIngredients).                                                     *)
(*                                                                         *)
(* A JavaScript string is a sequence of characters, each character a       *)
(* one-element TLA+ string; a JavaScript number is a binary floating-point *)
(* value with a MantBits-bit significand (IEEE 754 round-to-nearest-even,  *)
(* 53 bits in the program) or NaN.                                         *)
(***************************************************************************)
EXTENDS Integers, Sequences, FiniteSets, TLC

VARIABLES
    pc,            \* which function is being applied, and how far it got
    ocrText,       \* the text handed to the parsers
    textType,      \* typeof the value handed to parseSteps
    ingredients,   \* the list parseIngredients returned
    ingrSrc,       \* for each ingredient returned, the number of its source line
    nextId,        \* how many ids generateId has handed out
    hasCrypto,     \* whether the runtime has crypto.randomUUID
    reads,         \* what the k-th generateId call reads from the clock and
                   \* the random source, for the calls made and a few to come
    steps,         \* the list parseSteps returned
    stepSrc,       \* for each step returned, the number of its source line
    stepVia,       \* the strategy that produced the steps
    recipe,        \* the list handed to scaleIngredients (a list object)
    originalServings,
    targetServings,
    scaled,        \* the list scaleIngredients returned
    rescaled,      \* the list returned by scaling `scaled` back
    nextRef,       \* how many list objects have been allocated
    fmtQuantity,   \* the number handed to formatQuantity
    fmtDecimals,   \* the maxDecimals handed to formatQuantity
    formatted,     \* the string formatQuantity returned
    month,         \* the calendar month, as getCurrentMonth returns it
    signedIn,      \* whether a user is signed in
    cloud,         \* the user's row of the scan_limits table
    local,         \* the month and the count in AsyncStorage
    calls,         \* the handler calls in flight, each with its position and locals
    scanStatus,    \* ScannerScreen's scanStatus
    isLoadingStatus,
    isProcessing,  \* useScanner's isProcessing
    scanned,       \* whether useScanner's ocrText is set
    scanError,     \* whether useScanner's error is set
    presses        \* how often Scan was pressed

vars == <<pc, ocrText, textType, ingredients, ingrSrc, nextId, hasCrypto, reads,
          steps, stepSrc, stepVia,
          recipe, originalServings,
          targetServings, scaled, rescaled, nextRef,
          fmtQuantity, fmtDecimals, formatted,
          month, signedIn, cloud, local, calls, scanStatus, isLoadingStatus,
          isProcessing, scanned, scanError, presses>>

ingrVars == <<ingredients, ingrSrc, nextId, hasCrypto, reads>>
stepVars == <<steps, stepSrc, stepVia>>
scaleVars == <<recipe, originalServings, targetServings, scaled, rescaled, nextRef>>
formatVars == <<fmtQuantity, fmtDecimals, formatted>>
limitVars == <<month, signedIn, cloud, local>>
screenVars == <<scanStatus, isLoadingStatus, isProcessing, scanned, scanError, presses>>

(***************************************************************************)
(* Bounds of the model.                                                    *)
(***************************************************************************)
\* Significand width of the floating-point numbers.
MantBits == 4
\* Lines in a text handed to parseIngredients.
MaxIngrLines == 2
\* Lines in a text handed to parseSteps.
MaxStepLines == 4
\* Ingredients in a recipe handed to scaleIngredients.
MaxItems == 2
\* The largest serving count.
MaxServings == 4

(***************************************************************************)
(* Characters and strings.                                                 *)
(***************************************************************************)
\* The bullet U+2022 and the middle dot U+00B7.
BULLET == "bullet"
MIDDOT == "middot"
\* The three characters U+00E2 U+20AC U+02D8 that parseIngredients' marker
\* class holds where a bullet was meant.
MOJI1 == "a-circumflex"
MOJI2 == "euro"
MOJI3 == "breve"

NL == "\n"
Digits == {"0", "1", "2", "3", "4", "5", "6", "7", "8", "9"}
DigitChars == <<"0", "1", "2", "3", "4", "5", "6", "7", "8", "9">>
LowerChars == <<"a", "b", "c", "d", "e", "f", "g", "h", "i", "j", "k", "l", "m",
                "n", "o", "p", "q", "r", "s", "t", "u", "v", "w", "x", "y", "z">>
UpperChars == <<"A", "B", "C", "D", "E", "F", "G", "H", "I", "J", "K", "L", "M",
                "N", "O", "P", "Q", "R", "S", "T", "U", "V", "W", "X", "Y", "Z">>
Range(f) == {f[i] : i \in DOMAIN f}
\* \s of a regular expression, and what String.prototype.trim removes.
WhiteSpace == {" ", "\t", "\r", NL}
\* \w of a regular expression.
WordChars == Range(LowerChars) \cup Range(UpperChars) \cup Digits \cup {"_"}

Take(s, n) == SubSeq(s, 1, n)
Drop(s, n) == SubSeq(s, n + 1, Len(s))

\* The number of leading characters of s that are in cls (a greedy cls*).
RECURSIVE SpanFrom(_, _, _)
SpanFrom(s, cls, i) ==
    IF i > Len(s) THEN i - 1
    ELSE IF s[i] \notin cls THEN i - 1
    ELSE SpanFrom(s, cls, i + 1)
SpanLen(s, cls) == SpanFrom(s, cls, 1)

\* The number of trailing characters of s that are in cls.
RECURSIVE TrailFrom(_, _, _)
TrailFrom(s, cls, i) ==
    IF i < 1 THEN Len(s)
    ELSE IF s[i] \notin cls THEN Len(s) - i
    ELSE TrailFrom(s, cls, i - 1)
TrailLen(s, cls) == TrailFrom(s, cls, Len(s))

\* String.prototype.trim.
Trim(s) ==
    LET Cut(a) == IF a = Len(s) THEN <<>>
                  ELSE SubSeq(s, a + 1, Len(s) - TrailLen(s, WhiteSpace))
    IN  Cut(SpanLen(s, WhiteSpace))

\* toLowerCase of one character, and of a string.
LowerOf == [c \in Range(UpperChars) |-> LowerChars[CHOOSE i \in 1..26 : UpperChars[i] = c]]
LowerChar(c) == IF c \in DOMAIN LowerOf THEN LowerOf[c] ELSE c
ToLowerCase(s) == [i \in 1..Len(s) |-> LowerChar(s[i])]

StartsWith(s, p) == Len(s) >= Len(p) /\ Take(s, Len(p)) = p

\* String.prototype.split('\n').
RECURSIVE IndexOfNL(_, _)
IndexOfNL(s, i) ==
    IF i > Len(s) THEN 0
    ELSE IF s[i] = NL THEN i
    ELSE IndexOfNL(s, i + 1)
RECURSIVE Split(_)
Split(s) ==
    LET k == IndexOfNL(s, 1)
    IN  IF k = 0 THEN <<s>> ELSE <<Take(s, k - 1)>> \o Split(Drop(s, k))

(***************************************************************************)
(* Numbers.  A finite number is m * 2^e with m = 0 or                      *)
(* 2^(MantBits-1) <= m < 2^MantBits; the parsers and the scaler only ever  *)
(* produce non-negative numbers and NaN.                                   *)
(***************************************************************************)
NaN == [nan |-> TRUE, m |-> 0, e |-> 0]
Zero == [nan |-> FALSE, m |-> 0, e |-> 0]
Pow2(n) == 2 ^ n

\* Scales n/d * 2^e until 2^(MantBits-1) <= n/d < 2^MantBits.
RECURSIVE Normalize(_, _, _)
Normalize(n, d, e) ==
    IF n >= d * Pow2(MantBits) THEN Normalize(n, 2 * d, e + 1)
    ELSE IF n < d * Pow2(MantBits - 1) THEN Normalize(2 * n, d, e - 1)
    ELSE <<n, d, e>>

\* The number nearest to (n/d) * 2^e0, ties to even: the rounding every
\* arithmetic operation and every decimal literal ends with.
RoundQ(n, d, e0) ==
    IF n = 0 THEN Zero
    ELSE LET t == Normalize(n, d, e0)
             q == t[1] \div t[2]
             r == t[1] % t[2]
             up == 2 * r > t[2] \/ (2 * r = t[2] /\ q % 2 = 1)
             q1 == IF up THEN q + 1 ELSE q
         IN  IF q1 = Pow2(MantBits)
             THEN [nan |-> FALSE, m |-> Pow2(MantBits - 1), e |-> t[3] + 1]
             ELSE [nan |-> FALSE, m |-> q1, e |-> t[3]]

\* An integer as a number.
FromInt(n) == RoundQ(n, 1, 0)

\* a * b, a / b (b not zero) and a + b on numbers.
FMul(a, b) ==
    IF a.nan \/ b.nan THEN NaN ELSE RoundQ(a.m * b.m, 1, a.e + b.e)
FDiv(a, b) ==
    IF a.nan \/ b.nan \/ b.m = 0 THEN NaN ELSE RoundQ(a.m, b.m, a.e - b.e)
FAdd(a, b) ==
    IF a.nan \/ b.nan THEN NaN
    ELSE IF a.m = 0 THEN b
    ELSE IF b.m = 0 THEN a
    ELSE LET e == IF a.e < b.e THEN a.e ELSE b.e
         IN  RoundQ(a.m * Pow2(a.e - e) + b.m * Pow2(b.e - e), 1, e)

\* isNaN(x), and x <= 0 for the non-negative numbers of the model.
IsNaN(x) == x.nan
IsPositive(x) == ~x.nan /\ x.m > 0

\* parseInt(ds, 10) of a string of digits, as an integer.
RECURSIVE DigitsValue(_)
DigitsValue(ds) ==
    IF ds = <<>> THEN 0
    ELSE 10 * DigitsValue(Take(ds, Len(ds) - 1))
         + ((CHOOSE i \in 1..10 : DigitChars[i] = ds[Len(ds)]) - 1)
ParseInt(ds) == FromInt(DigitsValue(ds))

\* parseFloat of a string: the longest prefix digits [. digits], NaN when it
\* holds no digit.
ParseFloat(str) ==
    LET s == Trim(str)
        k == SpanLen(s, Digits)
        hasDot == Len(s) > k /\ s[k + 1] = "."
        f == IF hasDot THEN SpanLen(Drop(s, k + 1), Digits) ELSE 0
    IN  IF k + f = 0 THEN NaN
        ELSE RoundQ(DigitsValue(Take(s, k) \o SubSeq(s, k + 2, k + 1 + f)), 10 ^ f, 0)

(***************************************************************************)
(* The ingredient parser.                                                  *)
(***************************************************************************)
\* The unit vocabulary; a blank in a pattern stands for \s+.
UNIT_PATTERNS == <<
    <<"g">>,
    <<"g", "r", "a", "m">>,
    <<"g", "r", "a", "m", "s">>,
    <<"k", "g">>,
    <<"k", "i", "l", "o", "g", "r", "a", "m">>,
    <<"k", "i", "l", "o", "g", "r", "a", "m", "s">>,
    <<"o", "z">>,
    <<"o", "u", "n", "c", "e">>,
    <<"o", "u", "n", "c", "e", "s">>,
    <<"l", "b">>,
    <<"l", "b", "s">>,
    <<"p", "o", "u", "n", "d">>,
    <<"p", "o", "u", "n", "d", "s">>,
    <<"m", "l">>,
    <<"m", "i", "l", "l", "i", "l", "i", "t", "e", "r">>,
    <<"m", "i", "l", "l", "i", "l", "i", "t", "e", "r", "s">>,
    <<"m", "i", "l", "l", "i", "l", "i", "t", "r", "e">>,
    <<"m", "i", "l", "l", "i", "l", "i", "t", "r", "e", "s">>,
    <<"l">>,
    <<"l", "i", "t", "e", "r">>,
    <<"l", "i", "t", "e", "r", "s">>,
    <<"l", "i", "t", "r", "e">>,
    <<"l", "i", "t", "r", "e", "s">>,
    <<"c", "u", "p">>,
    <<"c", "u", "p", "s">>,
    <<"t", "s", "p">>,
    <<"t", "e", "a", "s", "p", "o", "o", "n">>,
    <<"t", "e", "a", "s", "p", "o", "o", "n", "s">>,
    <<"t", "b", "s", "p">>,
    <<"t", "a", "b", "l", "e", "s", "p", "o", "o", "n">>,
    <<"t", "a", "b", "l", "e", "s", "p", "o", "o", "n", "s">>,
    <<"f", "l", " ", "o", "z">>,
    <<"f", "l", "u", "i", "d", " ", "o", "u", "n", "c", "e">>,
    <<"f", "l", "u", "i", "d", " ", "o", "u", "n", "c", "e", "s">>,
    <<"p", "i", "n", "c", "h">>,
    <<"p", "i", "n", "c", "h", "e", "s">>,
    <<"d", "a", "s", "h">>,
    <<"d", "a", "s", "h", "e", "s">>,
    <<"b", "u", "n", "c", "h">>,
    <<"b", "u", "n", "c", "h", "e", "s">>,
    <<"c", "l", "o", "v", "e">>,
    <<"c", "l", "o", "v", "e", "s">>,
    <<"s", "l", "i", "c", "e">>,
    <<"s", "l", "i", "c", "e", "s">>,
    <<"p", "i", "e", "c", "e">>,
    <<"p", "i", "e", "c", "e", "s">>,
    <<"c", "a", "n">>,
    <<"c", "a", "n", "s">>,
    <<"p", "a", "c", "k", "a", "g", "e">>,
    <<"p", "a", "c", "k", "a", "g", "e", "s">>,
    <<"p", "k", "g">>,
    <<"s", "t", "i", "c", "k">>,
    <<"s", "t", "i", "c", "k", "s">>
>>

\* ^(\d+)\s+(\d+)\/(\d+) at the start of s: whether it matches, the three
\* groups and the length matched.
MixedPrefix(s) ==
    LET a == SpanLen(s, Digits)
        s1 == Drop(s, a)
        w == SpanLen(s1, WhiteSpace)
        s2 == Drop(s1, w)
        b == SpanLen(s2, Digits)
        s3 == Drop(s2, b)
        slash == s3 # <<>> /\ s3[1] = "/"
        c == IF slash THEN SpanLen(Drop(s3, 1), Digits) ELSE 0
    IN  [ok |-> a >= 1 /\ w >= 1 /\ b >= 1 /\ slash /\ c >= 1,
         len |-> a + w + b + 1 + c,
         g1 |-> Take(s, a), g2 |-> Take(s2, b), g3 |-> SubSeq(s3, 2, 1 + c)]

\* ^(\d+)\/(\d+) at the start of s.
FractionPrefix(s) ==
    LET a == SpanLen(s, Digits)
        s1 == Drop(s, a)
        slash == s1 # <<>> /\ s1[1] = "/"
        c == IF slash THEN SpanLen(Drop(s1, 1), Digits) ELSE 0
    IN  [ok |-> a >= 1 /\ slash /\ c >= 1,
         len |-> a + 1 + c,
         g1 |-> Take(s, a), g2 |-> SubSeq(s1, 2, 1 + c)]

\* ^\d*\.?\d+ at the start of s: the digits, a dot and digits when a digit
\* follows the dot, and the digits alone otherwise.
DecimalPrefix(s) ==
    LET a == SpanLen(s, Digits)
        s1 == Drop(s, a)
        dot == s1 # <<>> /\ s1[1] = "."
        c == IF dot THEN SpanLen(Drop(s1, 1), Digits) ELSE 0
    IN  [ok |-> c >= 1 \/ a >= 1,
         len |-> IF c >= 1 THEN a + 1 + c ELSE a]

\* parseFraction: the mixed number, then the simple fraction, then parseFloat.
parseFraction(fractionStr) ==
    LET trimmed == Trim(fractionStr)
        mixedMatch == MixedPrefix(trimmed)
        fractionMatch == FractionPrefix(trimmed)
    IN  IF mixedMatch.ok /\ mixedMatch.len = Len(trimmed)
        THEN IF DigitsValue(mixedMatch.g3) = 0 THEN NaN
             ELSE FAdd(ParseInt(mixedMatch.g1),
                       FDiv(ParseInt(mixedMatch.g2), ParseInt(mixedMatch.g3)))
        ELSE IF fractionMatch.ok /\ fractionMatch.len = Len(trimmed)
        THEN IF DigitsValue(fractionMatch.g2) = 0 THEN NaN
             ELSE FDiv(ParseInt(fractionMatch.g1), ParseInt(fractionMatch.g2))
        ELSE ParseFloat(trimmed)

\* Mutant: the dash is not a marker.
MarkerClass_NoDash == WhiteSpace \cup {"*", MOJI1, MOJI2, MOJI3}

\* The characters parseIngredients strips from the start of a line.
MarkerClass == WhiteSpace \cup {"-", "*", MOJI1, MOJI2, MOJI3}

\* line.replace(/^[\s\-*...]+/, '').trim()
CleanLine(line) == Trim(Drop(line, SpanLen(line, MarkerClass)))

\* Mutant: the decimal alternative is tried first.
QuantityMatchOf_DecimalFirst(s, mx, fr, de) ==
    LET n == IF de.ok THEN de.len ELSE IF mx.ok THEN mx.len ELSE fr.len
    IN  [ok |-> mx.ok \/ fr.ok \/ de.ok,
         str |-> Take(s, n),
         len |-> n + SpanLen(Drop(s, n), WhiteSpace)]

\* The match of the quantity regex, from its three alternatives in order.
QuantityMatchOf(s, mx, fr, de) ==
    LET n == IF mx.ok THEN mx.len ELSE IF fr.ok THEN fr.len ELSE de.len
    IN  [ok |-> mx.ok \/ fr.ok \/ de.ok,
         str |-> Take(s, n),
         len |-> n + SpanLen(Drop(s, n), WhiteSpace)]

\* cleanedLine.match(/^(\d+\s+\d+\/\d+|\d+\/\d+|\d*\.?\d+)\s*/): whether it
\* matches, group 1 and the length of the whole match.
QuantityMatch(s) ==
    QuantityMatchOf(s, MixedPrefix(s), FractionPrefix(s), DecimalPrefix(s))

\* Mutant: the isNaN test forgotten.
QuantityRejected_NoNaNTest(quantity) == ~quantity.nan /\ quantity.m = 0

\* isNaN(quantity) || quantity <= 0
QuantityRejected(quantity) == IsNaN(quantity) \/ ~IsPositive(quantity)

\* How many characters of s the unit pattern p matches at its start,
\* ignoring case; -1 when it does not match.
RECURSIVE PatternLen(_, _)
PatternLen(p, s) ==
    IF p = <<>> THEN 0
    ELSE IF p[1] = " "
    THEN LET w == SpanLen(s, WhiteSpace)
             r == PatternLen(Tail(p), Drop(s, w))
         IN  IF w = 0 \/ r < 0 THEN -1 ELSE w + r
    ELSE IF s # <<>> /\ LowerChar(s[1]) = p[1]
    THEN LET r == PatternLen(Tail(p), Tail(s))
         IN  IF r < 0 THEN -1 ELSE 1 + r
    ELSE -1

\* Mutant: no word boundary is asked for.
WordBoundaryAfter_Anywhere(s, n) == TRUE

\* \b after the first n characters of s, the n-th being a letter.
WordBoundaryAfter(s, n) == n = Len(s) \/ s[n + 1] \notin WordChars

\* remainder.match(unitRegex): the length of the unit matched, 0 when none.
UnitMatchLen(s) ==
    LET hits == {i \in 1..Len(UNIT_PATTERNS) :
                     /\ PatternLen(UNIT_PATTERNS[i], s) > 0
                     /\ WordBoundaryAfter(s, PatternLen(UNIT_PATTERNS[i], s))}
    IN  IF hits = {} THEN 0
        ELSE PatternLen(UNIT_PATTERNS[CHOOSE i \in hits : \A j \in hits : i <= j], s)

\* remainder.replace(/^of\s+/i, '').trim()
StripOf(s) ==
    LET w == IF Len(s) >= 2 THEN SpanLen(Drop(s, 2), WhiteSpace) ELSE 0
    IN  IF Len(s) >= 2 /\ LowerChar(s[1]) = "o" /\ LowerChar(s[2]) = "f" /\ w >= 1
        THEN Trim(Drop(s, 2 + w))
        ELSE Trim(s)

\* An absent unit (undefined).
NoUnit == <<>>

\* The loop body over a line, last stage first.  What is pushed, without
\* its id, unless the label is empty.
PushLabelled(quantity, unit, label) ==
    IF label = <<>> THEN <<>>
    ELSE <<[quantity |-> quantity, unit |-> unit, label |-> label]>>

\* The unit, u characters long (none when 0), and the label behind it.
ParseUnit(quantity, remainder, u) ==
    PushLabelled(quantity,
                 IF u > 0 THEN ToLowerCase(Take(remainder, u)) ELSE NoUnit,
                 StripOf(Trim(Drop(remainder, u))))

\* The tests on the quantity and on the rest of the line.
ParseRemainder(quantity, remainder) ==
    IF QuantityRejected(quantity) THEN <<>>
    ELSE IF remainder = <<>> THEN <<>>
    ELSE ParseUnit(quantity, remainder, UnitMatchLen(remainder))

\* The quantity and the rest of the line, when the quantity regex matched.
ParseMatched(cleanedLine, quantityMatch) ==
    IF ~quantityMatch.ok THEN <<>>
    ELSE ParseRemainder(parseFraction(quantityMatch.str),
                        Trim(Drop(cleanedLine, quantityMatch.len)))

\* The cleaned line, skipped when empty.
ParseCleaned(cleanedLine) ==
    IF cleanedLine = <<>> THEN <<>>
    ELSE ParseMatched(cleanedLine, QuantityMatch(cleanedLine))

\* One pass of the loop body over a line: the ingredient it pushes, without
\* its id, or nothing.
ParseLine(line) == ParseCleaned(CleanLine(line))

\* Math.random().toString(36).substring(2, 9): the leading base-36 digits
\* of the random number, the digits after them cut off. The random number
\* is given by its digits read as an integer, of which the last is cut.
Base36Suffix(rnd) == rnd \div 2

\* generateId() on a runtime with or without crypto.randomUUID, from what
\* the call reads: the random bits of the UUID, or the clock and the random
\* number.
generateId(crypto, reading) ==
    IF crypto THEN <<"uuid", reading.rnd>>
    ELSE <<reading.now, "-", Base36Suffix(reading.rnd)>>

\* ingredients.push({id, quantity, unit, label}) for what line i gave, if
\* anything, ids[k] being what the k-th generateId call of this run returns;
\* every entry also carries the number of its line.
Pushed(acc, got, i, ids) ==
    IF got = <<>> THEN acc
    ELSE Append(acc, [id |-> ids[Len(acc) + 1],
                      quantity |-> got[1].quantity,
                      unit |-> got[1].unit,
                      label |-> got[1].label,
                      line |-> i])

\* The loop over the lines from line i on: acc holds the ingredients pushed
\* so far.
RECURSIVE ParseLoop(_, _, _, _)
ParseLoop(lines, i, acc, ids) ==
    IF i > Len(lines) THEN acc
    ELSE ParseLoop(lines, i + 1, Pushed(acc, ParseLine(lines[i]), i, ids), ids)

\* parseIngredients(ocrText), generateId returning ids[1], ids[2], ... in
\* turn; every entry also carries the number of its source line.
parseIngredientsTraced(text, ids) == ParseLoop(Split(text), 1, <<>>, ids)

\* An ingredient as the program holds it.
AsIngredient(t) ==
    [id |-> t.id, quantity |-> t.quantity, unit |-> t.unit, label |-> t.label]
Ingredients(traced) == [k \in 1..Len(traced) |-> AsIngredient(traced[k])]
parseIngredients(text, ids) == Ingredients(parseIngredientsTraced(text, ids))

(***************************************************************************)
(* The step parser.                                                        *)
(***************************************************************************)
STEP_HEADERS == <<
    <<"i", "n", "s", "t", "r", "u", "c", "t", "i", "o", "n", "s">>,
    <<"d", "i", "r", "e", "c", "t", "i", "o", "n", "s">>,
    <<"s", "t", "e", "p", "s">>,
    <<"m", "e", "t", "h", "o", "d">>,
    <<"p", "r", "e", "p", "a", "r", "a", "t", "i", "o", "n">>,
    <<"p", "r", "o", "c", "e", "d", "u", "r", "e">>,
    <<"h", "o", "w", " ", "t", "o", " ", "m", "a", "k", "e">>,
    <<"t", "o", " ", "m", "a", "k", "e">>
>>

SECTION_END_HEADERS == <<
    <<"i", "n", "g", "r", "e", "d", "i", "e", "n", "t", "s">>,
    <<"n", "o", "t", "e", "s">>,
    <<"t", "i", "p", "s">>,
    <<"n", "u", "t", "r", "i", "t", "i", "o", "n">>,
    <<"n", "u", "t", "r", "i", "t", "i", "o", "n", "a", "l">>,
    <<"s", "e", "r", "v", "i", "n", "g">>,
    <<"s", "e", "r", "v", "i", "n", "g", "s">>,
    <<"y", "i", "e", "l", "d">>,
    <<"m", "a", "k", "e", "s">>,
    <<"s", "t", "o", "r", "a", "g", "e">>,
    <<"v", "a", "r", "i", "a", "t", "i", "o", "n", "s">>
>>

\* isHeader(line, headers)
isHeader(line, headers) ==
    LET lower == ToLowerCase(line)
        normalized == Trim(Take(lower, Len(lower) - TrailLen(lower, WhiteSpace \cup {":"})))
    IN  \E h \in 1..Len(headers) :
            \/ normalized = headers[h]
            \/ StartsWith(normalized, headers[h] \o <<" ">>)

\* NUMBERED_STEP_REGEX /^(?:step\s*)?(\d+)[.):\s]\s*/i at the start of s,
\* the part before the number being the first `skip` characters: whether it
\* matches, the number and the length matched.
NumberedAt(s, skip) ==
    LET s1 == Drop(s, skip)
        d == SpanLen(s1, Digits)
        s2 == Drop(s1, d)
        sep == s2 # <<>> /\ s2[1] \in ({".", ")", ":"} \cup WhiteSpace)
    IN  [ok |-> d >= 1 /\ sep,
         num |-> DigitsValue(Take(s1, d)),
         len |-> skip + d + 1 + SpanLen(Drop(s2, 1), WhiteSpace)]

NumberedMatch(s) ==
    LET word == <<"s", "t", "e", "p">>
        hasWord == StartsWith(ToLowerCase(s), word)
        withWord == NumberedAt(s, 4 + SpanLen(Drop(s, 4), WhiteSpace))
    IN  IF hasWord /\ withWord.ok THEN withWord ELSE NumberedAt(s, 0)

\* The characters of BULLET_REGEX /^[-\u2022*\u00b7]\s*/.
BulletChars == {"-", BULLET, "*", MIDDOT}

\* BULLET_REGEX.test(s)
BulletMatch(s) == s # <<>> /\ s[1] \in BulletChars

\* cleaned.replace(NUMBERED_STEP_REGEX, '')
DropNumber(s, nm) == IF nm.ok THEN Drop(s, nm.len) ELSE s
Unnumbered(s) == DropNumber(s, NumberedMatch(s))

\* cleaned.replace(BULLET_REGEX, '')
Unbulleted(s) ==
    IF BulletMatch(s) THEN Drop(s, 1 + SpanLen(Drop(s, 1), WhiteSpace)) ELSE s

\* cleanStepLine(line)
cleanStepLine(line) == Trim(Unbulleted(Unnumbered(Trim(line))))

\* The units of the ingredient test.
INGREDIENT_UNITS == <<
    <<"c", "u", "p">>,
    <<"t", "s", "p">>,
    <<"t", "b", "s", "p">>,
    <<"o", "z">>,
    <<"g">>,
    <<"m", "l">>,
    <<"l", "b">>
>>

\* s without its leading characters of cls.
AfterSpan(s, cls) == Drop(s, SpanLen(s, cls))

\* s begins with one of the units, whatever the case.
StartsWithUnit(s) ==
    \E u \in 1..Len(INGREDIENT_UNITS) : StartsWith(ToLowerCase(s), INGREDIENT_UNITS[u])

\* /^\d+\s*[\d/]*\s*(cup|tsp|tbsp|oz|g|ml|lb)/i.test(s)
LooksLikeIngredient(s) ==
    /\ s # <<>>
    /\ s[1] \in Digits
    /\ StartsWithUnit(AfterSpan(AfterSpan(AfterSpan(AfterSpan(s, Digits), WhiteSpace),
                                          Digits \cup {"/"}),
                                WhiteSpace))

\* An instruction header, an end-of-section header, two numbered lines (one
\* with the word "Step" and the number 3), a number with no text, a bulleted
\* instruction, a bulleted and numbered instruction, a blank line and an
\* ingredient line.
StepLines ==
    {<<"M", "e", "t", "h", "o", "d", ":">>,
     <<"N", "o", "t", "e", "s">>,
     <<"1", ".", " ", "M", "i", "x">>,
     <<"S", "t", "e", "p", " ", "3", ":", " ", "S", "t", "i", "r">>,
     <<"1", ".">>,
     <<"-", " ", "W", "h", "i", "s", "k", " ", "t", "h", "e", " ", "e", "g", "g", "s", " ", "w", "e", "l", "l">>,
     <<"-", " ", "1", ".", " ", "F", "o", "l", "d", " ", "i", "n", " ", "t", "h", "e", " ", "f", "l", "o", "u", "r">>,
     <<>>,
     <<"2", " ", "c", "u", "p", "s", " ", "f", "l", "o", "u", "r">>}

\* What the line-level functions give on the catalogue's lines, worked out
\* once; Known looks a line up and falls back on the function itself.
Known(table, line, direct) == IF line \in DOMAIN table THEN table[line] ELSE direct
StepHeaderTable == [l \in StepLines |-> isHeader(l, STEP_HEADERS)]
SectionEndTable == [l \in StepLines |-> isHeader(l, SECTION_END_HEADERS)]
NumberedTable == [l \in StepLines |-> NumberedMatch(l)]
CleanedTable == [l \in StepLines |-> cleanStepLine(l)]
IngredientTable == [l \in StepLines |-> LooksLikeIngredient(l)]
IsStepHeader(line) == Known(StepHeaderTable, line, isHeader(line, STEP_HEADERS))
\* Mutant: the section is ended by the instruction headers instead.
IsSectionEnd_StepHeaders(line) == isHeader(line, STEP_HEADERS)
IsSectionEnd(line) == Known(SectionEndTable, line, isHeader(line, SECTION_END_HEADERS))
Numbered(line) == Known(NumberedTable, line, NumberedMatch(line))
Cleaned(line) == Known(CleanedTable, line, cleanStepLine(line))
IngredientLike(line) == Known(IngredientTable, line, LooksLikeIngredient(line))

\* A step with the number of the line it was taken from.
Step(text, line, num) == [text |-> text, line |-> line, num |-> num]

\* steps.push(cleaned) when cleaned is not empty.
PushStep(acc, cleaned, i, num) ==
    IF cleaned # <<>> THEN Append(acc, Step(cleaned, i, num)) ELSE acc

\* The body of the section loop for a line that does not end the section.
SectionLine(acc, line, i) ==
    IF line = <<>> THEN acc
    ELSE IF IngredientLike(line) THEN acc
    ELSE PushStep(acc, Cleaned(line), i, 0)

\* extractStepsFromSection(lines, startIndex), from line i on.
RECURSIVE extractStepsFromSection(_, _, _)
extractStepsFromSection(lines, i, acc) ==
    IF i > Len(lines) THEN acc
    ELSE IF IsSectionEnd(Trim(lines[i])) THEN acc
    ELSE extractStepsFromSection(lines, i + 1, SectionLine(acc, Trim(lines[i]), i))

\* numberedLines.push({num, text}) for a line that matches and cleans to a
\* non-empty text.
PushNumbered(acc, match, cleaned, i) ==
    IF match.ok THEN PushStep(acc, cleaned, i, match.num) ELSE acc

\* The body of the first loop of findNumberedSteps.
NumberedLine(acc, trimmed, i) ==
    IF trimmed = <<>> THEN acc
    ELSE PushNumbered(acc, Numbered(trimmed), Cleaned(trimmed), i)

\* The first loop of findNumberedSteps: the numbered lines, in line order.
RECURSIVE NumberedLines(_, _, _)
NumberedLines(lines, i, acc) ==
    IF i > Len(lines) THEN acc
    ELSE NumberedLines(lines, i + 1, NumberedLine(acc, Trim(lines[i]), i))

\* Mutant: an unstable sort, x put before the entries with its number.
InsertByNum_Unstable(s, x) ==
    LET k == Cardinality({j \in 1..Len(s) : s[j].num < x.num})
    IN  Take(s, k) \o <<x>> \o Drop(s, k)

\* x put into the sorted list s behind every entry whose number is not
\* greater: Array.prototype.sort is stable.
InsertByNum(s, x) ==
    LET k == Cardinality({j \in 1..Len(s) : s[j].num <= x.num})
    IN  Take(s, k) \o <<x>> \o Drop(s, k)

\* numberedLines.sort((a, b) => a.num - b.num)
RECURSIVE SortByNum(_)
SortByNum(s) ==
    IF s = <<>> THEN <<>>
    ELSE InsertByNum(SortByNum(Take(s, Len(s) - 1)), s[Len(s)])

\* Mutant: the test of the lowest number forgotten.
NumberedAccepted_AnyStart(sorted) == Len(sorted) >= 2

\* numberedLines.length >= 2 and numberedLines[0].num <= 2 after the sort.
NumberedAccepted(sorted) == Len(sorted) >= 2 /\ sorted[1].num <= 2

\* Mutant: the sorted lines are returned whether accepted or not.
AcceptedOrNone_Always(sorted) == sorted

\* The sorted lines when accepted, nothing otherwise.
AcceptedOrNone(sorted) == IF NumberedAccepted(sorted) THEN sorted ELSE <<>>

\* findNumberedSteps(lines)
findNumberedSteps(lines) == AcceptedOrNone(SortByNum(NumberedLines(lines, 1, <<>>)))

\* The least length a cleaned bulleted line must exceed.
MIN_BULLET_LENGTH == 15

\* The locals of findBulletedSteps before its loop.
BulletStart == [steps |-> <<>>, inBulletSection |-> FALSE, consecutiveBullets |-> 0]

\* The loop body for a bulleted line, cleaned.
BulletedLine(st, cleaned, i) ==
    IF IngredientLike(cleaned) THEN st
    ELSE IF Len(cleaned) > MIN_BULLET_LENGTH
    THEN [steps |-> Append(st.steps, Step(cleaned, i, 0)),
          inBulletSection |-> TRUE,
          consecutiveBullets |-> st.consecutiveBullets + 1]
    ELSE st

\* The loop body for a line that does not end the loop.
BulletLine(st, trimmed, i) ==
    IF trimmed = <<>> THEN st
    ELSE IF BulletMatch(trimmed) THEN BulletedLine(st, Cleaned(trimmed), i)
    ELSE IF st.inBulletSection THEN [st EXCEPT !.consecutiveBullets = 0]
    ELSE st

\* Mutant: the loop never breaks.
BulletBreak_Never(st, trimmed) == FALSE

\* The break: an empty line once two bullets in a row were taken.
BulletBreak(st, trimmed) ==
    trimmed = <<>> /\ st.inBulletSection /\ st.consecutiveBullets >= 2

\* The loop of findBulletedSteps from line i on.
RECURSIVE BulletLoop(_, _, _)
BulletLoop(lines, i, st) ==
    IF i > Len(lines) THEN st.steps
    ELSE IF BulletBreak(st, Trim(lines[i])) THEN st.steps
    ELSE BulletLoop(lines, i + 1, BulletLine(st, Trim(lines[i]), i))

\* Mutant: the two-step minimum forgotten.
findBulletedSteps_NoMinimum(lines) == BulletLoop(lines, 1, BulletStart)

\* Mutant: one bulleted step suffices.
TwoOrNone_OneSuffices(found) == found

\* steps.length >= 2 ? steps : []
TwoOrNone(found) == IF Len(found) >= 2 THEN found ELSE <<>>

\* findBulletedSteps(lines)
findBulletedSteps(lines) == TwoOrNone(BulletLoop(lines, 1, BulletStart))

\* found when it holds a step, and otherwise what the rest of the loop gives.
FoundOrElse(found, rest) == IF Len(found) > 0 THEN found ELSE rest

\* The steps of the section under line i when line i is an instruction
\* header.
SectionUnder(lines, i) ==
    IF IsStepHeader(Trim(lines[i])) THEN extractStepsFromSection(lines, i + 1, <<>>)
    ELSE <<>>

\* The header loop of parseSteps from line i on: the steps of the first
\* instruction header whose section yields any, or nothing.
RECURSIVE HeaderLoop(_, _)
HeaderLoop(lines, i) ==
    IF i > Len(lines) THEN <<>>
    ELSE FoundOrElse(SectionUnder(lines, i), HeaderLoop(lines, i + 1))

\* A result of parseSteps with the strategy that gave it.
Via(strategy, found) == [via |-> strategy, items |-> found]

\* Mutant: the bulleted result is preferred to the numbered one.
FirstOf_BulletedFirst(numberedSteps, bulletedSteps) ==
    IF Len(bulletedSteps) > 0 THEN Via("bulleted", bulletedSteps)
    ELSE IF Len(numberedSteps) > 0 THEN Via("numbered", numberedSteps)
    ELSE Via("none", <<>>)

\* The numbered result when it holds a step, else the bulleted one, else
\* nothing.
FirstOf(numberedSteps, bulletedSteps) ==
    IF Len(numberedSteps) > 0 THEN Via("numbered", numberedSteps)
    ELSE IF Len(bulletedSteps) > 0 THEN Via("bulleted", bulletedSteps)
    ELSE Via("none", <<>>)

\* The fallbacks of parseSteps once the header loop has found nothing.
Fallbacks(lines) == FirstOf(findNumberedSteps(lines), findBulletedSteps(lines))

\* The header result when it holds a step, else the fallbacks' result.
HeaderOrElse(headerSteps, fallback) ==
    IF Len(headerSteps) > 0 THEN Via("header", headerSteps) ELSE fallback

\* Mutant: an instruction header ends the search, whatever its section
\* yields.
StepsOfLines_HeaderSuffices(lines) ==
    IF \E i \in 1..Len(lines) : IsStepHeader(Trim(lines[i]))
    THEN Via(IF Len(HeaderLoop(lines, 1)) > 0 THEN "header" ELSE "none", HeaderLoop(lines, 1))
    ELSE Fallbacks(lines)

\* parseSteps on the lines of a non-empty text.
StepsOfLines(lines) == HeaderOrElse(HeaderLoop(lines, 1), Fallbacks(lines))

\* parseSteps(text) for a value of the given typeof: the steps, each with the
\* line it came from, and the strategy that produced them.
parseStepsTraced(type, text) ==
    IF type # "string" \/ text = <<>> THEN Via("none", <<>>)
    ELSE StepsOfLines(Split(text))

\* parseSteps(text): the list of strings.
StepTexts(traced) == [k \in 1..Len(traced) |-> traced[k].text]
parseSteps(type, text) == StepTexts(parseStepsTraced(type, text).items)

(***************************************************************************)
(* Applying parseIngredients: the text is typed line by line out of a      *)
(* catalogue of lines, then parsed.                                        *)
(***************************************************************************)
\* Quantity tokens: integers, decimals, fractions and mixed numbers, with
\* zero values, zero denominators and thirds among them.
QtyTokens ==
    {<<"2">>,
     <<"0">>,
     <<"1", "/", "2">>,
     <<"1", "/", "0">>,
     <<"1", " ", "1", "/", "2">>,
     <<"1", " ", "1", "/", "0">>,
     <<"1", "/", "3">>,
     <<"1", " ", "2", "/", "3">>,
     <<".", "5">>,
     <<"0", ".", "0">>,
     <<"0", "/", "2">>,
     <<"4", ".", "5">>}
\* What follows the quantity: a unit and a label, a label alone, a unit
\* alone, nothing, a capitalised unit with "of", a label that starts with
\* the letter of a unit, a unit with "of" and nothing behind it.
IngrTails ==
    {<<" ", "c", "u", "p", "s", " ", "f", "l", "o", "u", "r">>,
     <<" ", "e", "g", "g", "s">>,
     <<" ", "c", "u", "p", "s">>,
     <<>>,
     <<" ", "C", "u", "p", " ", "o", "f", " ", "s", "u", "g", "a", "r">>,
     <<" ", "g", "a", "r", "l", "i", "c">>,
     <<" ", "c", "u", "p", "s", " ", "o", "f">>}
\* What precedes the quantity: nothing, a dash, a minus sign, a bullet, an
\* asterisk.
IngrMarkers ==
    {<<>>,
     <<"-", " ">>,
     <<"-">>,
     <<BULLET, " ">>,
     <<"*", " ">>}
IngrLines ==
    {q \o <<" ", "c", "u", "p", "s", " ", "f", "l", "o", "u", "r">> : q \in QtyTokens}
    \cup {<<"2">> \o tl : tl \in IngrTails}
    \cup {mk \o <<"2", " ", "c", "u", "p", "s", " ", "f", "l", "o", "u", "r">> : mk \in IngrMarkers}
    \cup {<<"P", "r", "e", "h", "e", "a", "t", " ", "o", "v", "e", "n">>, <<>>}

\* The lines of the text.
TextLines == Split(ocrText)

\* No list.
NoList == <<>>
\* No row, nothing stored.
NoRow == [month |-> 0, count |-> 0]
\* scanStatus when null.
NoStatus == [count |-> 0, month |-> 0, remaining |-> 0, canScan |-> TRUE]
\* No call.
Idle == [stage |-> "none", pc |-> "idle", cm |-> 0, count |-> 0, seen |-> 0,
         outcome |-> "none"]
\* No scanner screen.
NoScanner ==
    /\ month = 0
    /\ signedIn = FALSE
    /\ cloud = NoRow
    /\ local = NoRow
    /\ calls = <<>>
    /\ scanStatus = NoStatus
    /\ isLoadingStatus = FALSE
    /\ isProcessing = FALSE
    /\ scanned = FALSE
    /\ scanError = FALSE
    /\ presses = 0
\* formatQuantity not called.
NoFormat ==
    /\ fmtQuantity = Zero
    /\ fmtDecimals = 0
    /\ formatted = <<>>
\* No list object.
NoRecipe == [ref |-> 0, items |-> <<>>]

\* Readings of a clock that stands still and a random source that returns
\* 1, 2, ...
FixedReads == [k \in 1..MaxIngrLines |-> [now |-> 0, rnd |-> k]]

\* What the generateId calls to come return, as far as the readings go.
ComingIds == [k \in 1..(Len(reads) - nextId) |-> generateId(hasCrypto, reads[nextId + k])]

InitIngr ==
    /\ pc = "ingrText"
    /\ ocrText \in IngrLines
    /\ textType = "string"
    /\ ingredients = NoList
    /\ ingrSrc = NoList
    /\ nextId = 0
    /\ hasCrypto = TRUE
    /\ reads = FixedReads
    /\ steps = NoList
    /\ stepSrc = NoList
    /\ stepVia = "none"
    /\ recipe = NoRecipe
    /\ originalServings = 0
    /\ targetServings = 0
    /\ scaled = NoRecipe
    /\ rescaled = NoRecipe
    /\ nextRef = 0
    /\ NoFormat
    /\ NoScanner

\* One more line of text arrives.
TypeIngrLine ==
    /\ pc = "ingrText"
    /\ Len(TextLines) < MaxIngrLines
    /\ \E line \in IngrLines : ocrText' = ocrText \o <<NL>> \o line
    /\ UNCHANGED <<pc, textType, ingrVars, stepVars, scaleVars, formatVars,
                   limitVars, calls, screenVars>>

\* ingredients = parseIngredients(ocrText)
ParseIngredients ==
    /\ pc = "ingrText"
    /\ Len(reads) >= nextId + MaxIngrLines
    /\ LET traced == parseIngredientsTraced(ocrText, ComingIds)
       IN  /\ ingredients' = Ingredients(traced)
           /\ ingrSrc' = [k \in 1..Len(traced) |-> traced[k].line]
           /\ nextId' = nextId + Len(traced)
    /\ pc' = "ingredients"
    /\ UNCHANGED <<ocrText, textType, hasCrypto, reads, stepVars, scaleVars, formatVars,
                   limitVars, calls, screenVars>>

NextIngr == TypeIngrLine \/ ParseIngredients

SpecIngr == InitIngr /\ [][NextIngr]_vars

(***************************************************************************)
(* parseIngredients called scan after scan, on either kind of runtime,     *)
(* with a clock that does not run backwards and a random source that may   *)
(* return anything.                                                        *)
(***************************************************************************)
\* The latest clock reading (milliseconds), the largest random number, and
\* the number of generateId calls followed.
MaxClock == 1
MaxRandom == 3
MaxIds == 4

\* Lines of a scanned text: one that gives an ingredient, one that gives none.
IdLines ==
    {<<"2", " ", "e", "g", "g", "s">>,
     <<"P", "r", "e", "h", "e", "a", "t", " ", "o", "v", "e", "n">>}

\* The time of the latest reading.
LastNow == IF reads = <<>> THEN 0 ELSE reads[Len(reads)].now

InitIds ==
    /\ pc = "ingrText"
    /\ ocrText \in IdLines
    /\ textType = "string"
    /\ ingredients = NoList
    /\ ingrSrc = NoList
    /\ nextId = 0
    /\ hasCrypto \in BOOLEAN
    /\ reads = <<>>
    /\ steps = NoList
    /\ stepSrc = NoList
    /\ stepVia = "none"
    /\ recipe = NoRecipe
    /\ originalServings = 0
    /\ targetServings = 0
    /\ scaled = NoRecipe
    /\ rescaled = NoRecipe
    /\ nextRef = 0
    /\ NoFormat
    /\ NoScanner

\* One more line of the scanned text.
TypeIdLine ==
    /\ pc = "ingrText"
    /\ Len(TextLines) < MaxIngrLines
    /\ \E line \in IdLines : ocrText' = ocrText \o <<NL>> \o line
    /\ UNCHANGED <<pc, textType, ingrVars, stepVars, scaleVars, formatVars,
                   limitVars, calls, screenVars>>

\* What one more generateId call will read: Date.now(), not before the
\* reading of the call before it, and Math.random() (or the random bits of
\* crypto.randomUUID()).
Entropy ==
    /\ Len(reads) < MaxIds
    /\ \E now \in LastNow..MaxClock, rnd \in 0..MaxRandom :
          reads' = Append(reads, [now |-> now, rnd |-> rnd])
    /\ UNCHANGED <<pc, ocrText, textType, ingredients, ingrSrc, nextId, hasCrypto,
                   stepVars, scaleVars, formatVars,
                   limitVars, calls, screenVars>>

\* handleReset and the next scan: the list is emptied and a new text arrives.
Rescan ==
    /\ pc = "ingredients"
    /\ ingredients' = NoList
    /\ ingrSrc' = NoList
    /\ \E line \in IdLines : ocrText' = line
    /\ pc' = "ingrText"
    /\ UNCHANGED <<textType, nextId, hasCrypto, reads, stepVars, scaleVars, formatVars,
                   limitVars, calls, screenVars>>

NextIds == TypeIdLine \/ Entropy \/ ParseIngredients \/ Rescan

SpecIds == InitIds /\ [][NextIds]_vars

(***************************************************************************)
(* Applying parseSteps: the value handed over is a text typed line by line *)
(* out of a catalogue of lines, or not a string at all.                    *)
(***************************************************************************)
\* typeof of the values handed to parseSteps.
TextTypes == {"string", "undefined", "object"}

InitSteps ==
    /\ pc = "stepText"
    /\ textType \in TextTypes
    /\ ocrText \in (IF textType = "string" THEN StepLines ELSE {<<>>})
    /\ ingredients = NoList
    /\ ingrSrc = NoList
    /\ nextId = 0
    /\ hasCrypto = TRUE
    /\ reads = FixedReads
    /\ steps = NoList
    /\ stepSrc = NoList
    /\ stepVia = "none"
    /\ recipe = NoRecipe
    /\ originalServings = 0
    /\ targetServings = 0
    /\ scaled = NoRecipe
    /\ rescaled = NoRecipe
    /\ nextRef = 0
    /\ NoFormat
    /\ NoScanner

\* One more line of text arrives.
TypeStepLine ==
    /\ pc = "stepText"
    /\ textType = "string"
    /\ Len(TextLines) < MaxStepLines
    /\ \E line \in StepLines : ocrText' = ocrText \o <<NL>> \o line
    /\ UNCHANGED <<pc, textType, ingrVars, stepVars, scaleVars, formatVars,
                   limitVars, calls, screenVars>>

\* steps = parseSteps(ocrText)
ParseSteps ==
    /\ pc = "stepText"
    /\ LET traced == parseStepsTraced(textType, ocrText)
       IN  /\ steps' = StepTexts(traced.items)
           /\ stepSrc' = [k \in 1..Len(traced.items) |-> traced.items[k].line]
           /\ stepVia' = traced.via
    /\ pc' = "steps"
    /\ UNCHANGED <<ocrText, textType, ingrVars, scaleVars, formatVars,
                   limitVars, calls, screenVars>>

NextSteps == TypeStepLine \/ ParseSteps

SpecSteps == InitSteps /\ [][NextSteps]_vars

(***************************************************************************)
(* Applying the two fallback strategies of parseSteps on their own, to     *)
(* texts of numbered lines (numbered 0, 2 and 3), bulleted lines and blank *)
(* lines.                                                                  *)
(***************************************************************************)
FallbackLines ==
    {<<"0", ".", " ", "M", "i", "x">>,
     <<"2", ")", " ", "B", "a", "k", "e">>,
     <<"S", "t", "e", "p", " ", "3", ":", " ", "S", "t", "i", "r">>,
     <<"-", " ", "W", "h", "i", "s", "k", " ", "t", "h", "e", " ", "e", "g", "g", "s", " ", "w", "e", "l", "l">>,
     <<>>}

InitFallback ==
    /\ pc = "fallbackText"
    /\ textType = "string"
    /\ ocrText \in FallbackLines
    /\ ingredients = NoList
    /\ ingrSrc = NoList
    /\ nextId = 0
    /\ hasCrypto = TRUE
    /\ reads = FixedReads
    /\ steps = NoList
    /\ stepSrc = NoList
    /\ stepVia = "none"
    /\ recipe = NoRecipe
    /\ originalServings = 0
    /\ targetServings = 0
    /\ scaled = NoRecipe
    /\ rescaled = NoRecipe
    /\ nextRef = 0
    /\ NoFormat
    /\ NoScanner

\* One more line of text arrives.
TypeFallbackLine ==
    /\ pc = "fallbackText"
    /\ Len(TextLines) < MaxStepLines
    /\ \E line \in FallbackLines : ocrText' = ocrText \o <<NL>> \o line
    /\ UNCHANGED <<pc, textType, ingrVars, stepVars, scaleVars, formatVars,
                   limitVars, calls, screenVars>>

\* What a strategy found is handed back.
Found(strategy, found) ==
    /\ steps' = StepTexts(found)
    /\ stepSrc' = [k \in 1..Len(found) |-> found[k].line]
    /\ stepVia' = strategy
    /\ pc' = "found"
    /\ UNCHANGED <<ocrText, textType, ingrVars, scaleVars, formatVars,
                   limitVars, calls, screenVars>>

\* steps = findNumberedSteps(lines)
FindNumbered ==
    /\ pc = "fallbackText"
    /\ Found("numbered", findNumberedSteps(TextLines))

\* steps = findBulletedSteps(lines)
FindBulleted ==
    /\ pc = "fallbackText"
    /\ Found("bulleted", findBulletedSteps(TextLines))

NextFallback == TypeFallbackLine \/ FindNumbered \/ FindBulleted

SpecFallback == InitFallback /\ [][NextFallback]_vars

(***************************************************************************)
(* The scaling engine.  A list is an object: ref tells list objects apart, *)
(* items holds the ingredients.                                            *)
(***************************************************************************)
\* Mutant: the no-op branches hand back the list they were given.
scaleIngredients_SameList(list, original, target, newRef) ==
    IF original <= 0 \/ target <= 0 \/ original = target
    THEN list
    ELSE [ref |-> newRef,
          items |-> [k \in 1..Len(list.items) |->
                        [list.items[k] EXCEPT
                            !.quantity = FMul(@, FDiv(FromInt(target), FromInt(original)))]]]

\* Mutant: the factor is the other ratio.
scaleIngredients_Inverted(list, original, target, newRef) ==
    IF original <= 0 \/ target <= 0 \/ original = target
    THEN [ref |-> newRef, items |-> list.items]
    ELSE [ref |-> newRef,
          items |-> [k \in 1..Len(list.items) |->
                        [list.items[k] EXCEPT
                            !.quantity = FMul(@, FDiv(FromInt(original), FromInt(target)))]]]

\* Mutant: the factor is an integer division.
scaleIngredients_IntegerFactor(list, original, target, newRef) ==
    IF original <= 0 \/ target <= 0 \/ original = target
    THEN [ref |-> newRef, items |-> list.items]
    ELSE [ref |-> newRef,
          items |-> [k \in 1..Len(list.items) |->
                        [list.items[k] EXCEPT
                            !.quantity = FMul(@, FromInt(target \div original))]]]

\* scaleIngredients(ingredients, originalServings, targetServings); newRef
\* is the list object that map() allocates.
scaleIngredients(list, original, target, newRef) ==
    IF original <= 0 \/ target <= 0
    THEN [ref |-> newRef, items |-> [k \in 1..Len(list.items) |-> list.items[k]]]
    ELSE IF original = target
    THEN [ref |-> newRef, items |-> [k \in 1..Len(list.items) |-> list.items[k]]]
    ELSE LET scalingFactor == FDiv(FromInt(target), FromInt(original))
         IN  [ref |-> newRef,
              items |-> [k \in 1..Len(list.items) |->
                            [list.items[k] EXCEPT !.quantity = FMul(@, scalingFactor)]]]

(***************************************************************************)
(* Applying scaleIngredients: a recipe of parsed ingredients is scaled     *)
(* from the original to the target serving count, and the result is scaled *)
(* back.                                                                   *)
(***************************************************************************)
\* The ingredients the catalogue's lines parse to.
RecipeKinds == {ParseLine(l)[1] : l \in {x \in IngrLines : ParseLine(x) # <<>>}}

\* The recipes: up to MaxItems ingredients, their ids in order.
RecipeItems ==
    UNION {{[k \in 1..n |-> [id |-> k, quantity |-> f[k].quantity,
                              unit |-> f[k].unit, label |-> f[k].label]] :
                f \in [1..n -> RecipeKinds]} : n \in 0..MaxItems}

\* The serving counts a caller hands over: negative, zero and positive.
Servings == -1..MaxServings

InitScale ==
    /\ pc = "recipe"
    /\ ocrText = <<>>
    /\ textType = "string"
    /\ ingredients = NoList
    /\ ingrSrc = NoList
    /\ nextId = 0
    /\ hasCrypto = TRUE
    /\ reads = FixedReads
    /\ steps = NoList
    /\ stepSrc = NoList
    /\ stepVia = "none"
    /\ recipe \in {[ref |-> 1, items |-> its] : its \in RecipeItems}
    /\ originalServings \in Servings
    /\ targetServings \in Servings
    /\ scaled = NoRecipe
    /\ rescaled = NoRecipe
    /\ nextRef = 1
    /\ NoFormat
    /\ NoScanner

\* scaled = scaleIngredients(recipe, originalServings, targetServings)
Scale ==
    /\ pc = "recipe"
    /\ scaled' = scaleIngredients(recipe, originalServings, targetServings, nextRef + 1)
    /\ nextRef' = nextRef + 1
    /\ pc' = "scaled"
    /\ UNCHANGED <<ocrText, textType, ingrVars, stepVars, recipe, originalServings,
                   targetServings, rescaled, formatVars,
                   limitVars, calls, screenVars>>

\* rescaled = scaleIngredients(scaled, targetServings, originalServings)
ScaleBack ==
    /\ pc = "scaled"
    /\ rescaled' = scaleIngredients(scaled, targetServings, originalServings, nextRef + 1)
    /\ nextRef' = nextRef + 1
    /\ pc' = "rescaled"
    /\ UNCHANGED <<ocrText, textType, ingrVars, stepVars, recipe, originalServings,
                   targetServings, scaled, formatVars,
                   limitVars, calls, screenVars>>

NextScale == Scale \/ ScaleBack

SpecScale == InitScale /\ [][NextScale]_vars

(***************************************************************************)
(* The screens that scale. ScannerScreen and RecipeDetailScreen keep the    *)
(* parsed list and the two serving counts in state and show                 *)
(* useMemo(() => scaleIngredients(list, originalServings, targetServings)); *)
(* ServingsControl changes the counts between minServings and maxServings,  *)
(* here 1 and MaxServings.                                                  *)
(***************************************************************************)
\* Renders of a screen.
MaxRenders == 4

\* The counts ServingsControl hands over.
ShownServings == 1..MaxServings

\* The screen is shown: the list is loaded, the counts are the screen's
\* initial ones (4 and 4 in ScannerScreen, the loaded ones in
\* RecipeDetailScreen), and the first render has scaled the list.
InitServings ==
    /\ pc = "screen"
    /\ ocrText = <<>>
    /\ textType = "string"
    /\ ingredients = NoList
    /\ ingrSrc = NoList
    /\ nextId = 0
    /\ hasCrypto = TRUE
    /\ reads = FixedReads
    /\ steps = NoList
    /\ stepSrc = NoList
    /\ stepVia = "none"
    /\ recipe \in {[ref |-> 1, items |-> its] : its \in RecipeItems}
    /\ originalServings \in ShownServings
    /\ targetServings \in ShownServings
    /\ scaled = scaleIngredients(recipe, originalServings, targetServings, 2)
    /\ rescaled = NoRecipe
    /\ nextRef = 2
    /\ NoFormat
    /\ NoScanner

\* Mutant: the memo scales the list it showed before.
Rerender_Compounding(original, target) ==
    /\ pc = "screen"
    /\ nextRef <= MaxRenders
    /\ originalServings' = original
    /\ targetServings' = target
    /\ scaled' = scaleIngredients(scaled, original, target, nextRef + 1)
    /\ nextRef' = nextRef + 1
    /\ UNCHANGED <<pc, ocrText, textType, ingrVars, stepVars, recipe, rescaled,
                   formatVars, limitVars, calls, screenVars>>

\* A count was set: the screen renders again and the memo, one of whose
\* dependencies changed, calls scaleIngredients on the list in state.
Rerender(original, target) ==
    /\ pc = "screen"
    /\ nextRef <= MaxRenders
    /\ originalServings' = original
    /\ targetServings' = target
    /\ scaled' = scaleIngredients(recipe, original, target, nextRef + 1)
    /\ nextRef' = nextRef + 1
    /\ UNCHANGED <<pc, ocrText, textType, ingrVars, stepVars, recipe, rescaled,
                   formatVars, limitVars, calls, screenVars>>

\* ServingsControl.handleDecrement
handleDecrement ==
    /\ originalServings > 1
    /\ Rerender(originalServings - 1, targetServings)

\* ServingsControl.handleIncrement
handleIncrement ==
    /\ originalServings < MaxServings
    /\ Rerender(originalServings + 1, targetServings)

\* The slider's onValueChange
onTargetChange ==
    \E value \in ShownServings :
        /\ value # targetServings
        /\ Rerender(originalServings, value)

NextServings == handleDecrement \/ handleIncrement \/ onTargetChange

SpecServings == InitServings /\ [][NextServings]_vars

(***************************************************************************)
(* The quantity formatter. Its arithmetic is followed with significands of *)
(* FormatBits bits, wide enough for the decimals it prints to be distinct  *)
(* numbers, as they are in the program.                                    *)
(***************************************************************************)
\* Significand width of the numbers of formatQuantity.
FormatBits == 10
\* The largest maxDecimals handed over.
MaxDecimals == 2
\* The fraction digits Number.prototype.toString tries.
MaxFractionDigits == 4
\* The largest numerator and denominator of a quantity handed over.
MaxFraction == 12

\* Scales n/d * 2^e until 2^(bits-1) <= n/d < 2^bits.
RECURSIVE NormalizeTo(_, _, _, _)
NormalizeTo(bits, n, d, e) ==
    IF n >= d * Pow2(bits) THEN NormalizeTo(bits, n, 2 * d, e + 1)
    ELSE IF n < d * Pow2(bits - 1) THEN NormalizeTo(bits, 2 * n, d, e - 1)
    ELSE <<n, d, e>>

\* The number with a significand of `bits` bits nearest to (n/d) * 2^e0,
\* ties to even.
RoundTo(bits, n, d, e0) ==
    IF n = 0 THEN Zero
    ELSE LET t == NormalizeTo(bits, n, d, e0)
             q == t[1] \div t[2]
             r == t[1] % t[2]
             up == 2 * r > t[2] \/ (2 * r = t[2] /\ q % 2 = 1)
             q1 == IF up THEN q + 1 ELSE q
         IN  IF q1 = Pow2(bits)
             THEN [nan |-> FALSE, m |-> Pow2(bits - 1), e |-> t[3] + 1]
             ELSE [nan |-> FALSE, m |-> q1, e |-> t[3]]

\* Math.round(x) of a non-negative number: the nearest integer, a half
\* rounded up.
MathRound(bits, x) ==
    IF x.nan THEN NaN
    ELSE IF x.e >= 0 THEN x
    ELSE RoundTo(bits, (2 * x.m + Pow2(-x.e)) \div Pow2(1 - x.e), 1, 0)

\* x * 10^f as a fraction <<numerator, denominator>>.
Shifted(x, f) ==
    IF x.e >= 0 THEN <<x.m * Pow2(x.e) * 10 ^ f, 1>> ELSE <<x.m * 10 ^ f, Pow2(-x.e)>>

\* The integers k next to x * 10^f for which k / 10^f is the number x, the
\* one nearer to x * 10^f first (of two equally near ones the even one).
DecimalsOf(bits, x, f, sh, k0) ==
    LET isX(k) == RoundTo(bits, k, 10 ^ f, 0) = x
        r == sh[1] - k0 * sh[2]
        lowFirst == 2 * r < sh[2] \/ (2 * r = sh[2] /\ k0 % 2 = 0)
        first == IF lowFirst THEN k0 ELSE k0 + 1
        second == IF lowFirst THEN k0 + 1 ELSE k0
    IN  IF isX(first) THEN <<first>> ELSE IF isX(second) THEN <<second>> ELSE <<>>

\* The decimal digits k with the point f digits from the right.
RECURSIVE IntString(_)
IntString(n) ==
    IF n < 10 THEN <<DigitChars[n + 1]>>
    ELSE Append(IntString(n \div 10), DigitChars[(n % 10) + 1])
RECURSIVE FractionString(_, _)
FractionString(n, f) ==
    IF f = 0 THEN <<>>
    ELSE Append(FractionString(n \div 10, f - 1), DigitChars[(n % 10) + 1])
DecimalString(k, f) ==
    IF f = 0 THEN IntString(k)
    ELSE IntString(k \div 10 ^ f) \o <<".">> \o FractionString(k % 10 ^ f, f)

\* Number.prototype.toString of a non-negative number below 10^21: the
\* decimal with the fewest digits that denotes the number, looked for from
\* f fraction digits on.
RECURSIVE ShortestFrom(_, _, _)
ShortestFrom(bits, x, f) ==
    IF f > MaxFractionDigits THEN <<"l", "o", "n", "g">>
    ELSE IF DecimalsOf(bits, x, f, Shifted(x, f), Shifted(x, f)[1] \div Shifted(x, f)[2]) # <<>>
    THEN DecimalString(DecimalsOf(bits, x, f, Shifted(x, f),
                                  Shifted(x, f)[1] \div Shifted(x, f)[2])[1], f)
    ELSE ShortestFrom(bits, x, f + 1)
NumberToString(bits, x) ==
    IF x.nan THEN <<"N", "a", "N">>
    ELSE IF x.m = 0 THEN <<"0">>
    ELSE ShortestFrom(bits, x, 0)

\* formatQuantity with floor in the place of Math.round.
formatQuantity_Truncating(q, decimals) ==
    LET bits == FormatBits
        pow == RoundTo(bits, 10 ^ decimals, 1, 0)
        product == RoundTo(bits, q.m * pow.m, 1, q.e + pow.e)
        floored == IF product.e >= 0 THEN product
                   ELSE RoundTo(bits, product.m \div Pow2(-product.e), 1, 0)
    IN  NumberToString(bits, RoundTo(bits, floored.m, pow.m, floored.e - pow.e))

\* formatQuantity(quantity, maxDecimals) of a non-negative quantity.
formatQuantity(q, decimals) ==
    LET bits == FormatBits
        pow == RoundTo(bits, 10 ^ decimals, 1, 0)
        product == RoundTo(bits, q.m * pow.m, 1, q.e + pow.e)
        nearest == MathRound(bits, product)
        rounded == RoundTo(bits, nearest.m, pow.m, nearest.e - pow.e)
    IN  NumberToString(bits, rounded)

\* The quantities handed over: the fractions of small integers.
FormatQuantities ==
    {RoundTo(FormatBits, n, d, 0) : n \in 0..MaxFraction, d \in 1..MaxFraction}

InitFormat ==
    /\ pc = "quantity"
    /\ ocrText = <<>>
    /\ textType = "string"
    /\ ingredients = NoList
    /\ ingrSrc = NoList
    /\ nextId = 0
    /\ hasCrypto = TRUE
    /\ reads = FixedReads
    /\ steps = NoList
    /\ stepSrc = NoList
    /\ stepVia = "none"
    /\ recipe = NoRecipe
    /\ originalServings = 0
    /\ targetServings = 0
    /\ scaled = NoRecipe
    /\ rescaled = NoRecipe
    /\ nextRef = 0
    /\ fmtQuantity \in FormatQuantities
    /\ fmtDecimals = 2
    /\ formatted = <<>>
    /\ NoScanner

\* The caller passes maxDecimals instead of leaving it to the default.
PassDecimals ==
    /\ pc = "quantity"
    /\ fmtDecimals' \in 0..MaxDecimals
    /\ pc' = "decimals"
    /\ UNCHANGED <<ocrText, textType, ingrVars, stepVars, scaleVars, fmtQuantity, formatted,
                   limitVars, calls, screenVars>>

\* formatted = formatQuantity(quantity, maxDecimals)
Format ==
    /\ pc \in {"quantity", "decimals"}
    /\ formatted' = formatQuantity(fmtQuantity, fmtDecimals)
    /\ pc' = "formatted"
    /\ UNCHANGED <<ocrText, textType, ingrVars, stepVars, scaleVars, fmtQuantity, fmtDecimals,
                   limitVars, calls, screenVars>>

NextFormat == PassDecimals \/ Format

SpecFormat == InitFormat /\ [][NextFormat]_vars

(***************************************************************************)
(* The scan limit service and the scanner screen that uses it. Every       *)
(* await is a point where another handler call may run; a step is one      *)
(* storage or network operation taking effect, with the code that follows  *)
(* it up to the next await. The operations on the cloud table may fail,    *)
(* those on AsyncStorage succeed.                                          *)
(***************************************************************************)
MAX_FREE_SCANS == 5
\* Handler calls in flight at a time, the last month, presses of Scan.
MaxCalls == 2
MaxMonth == 2
MaxPresses == 2

Calls == 1..MaxCalls
\* The counts stored for the month when the screen opens: one scan left, none left.
StartCounts == (MAX_FREE_SCANS - 1)..MAX_FREE_SCANS

\* The ScanStatus object getScanStatus returns.
ScanStatusOf(count, currentMonth) ==
    [count |-> count,
     month |-> currentMonth,
     remaining |-> IF MAX_FREE_SCANS - count > 0 THEN MAX_FREE_SCANS - count ELSE 0,
     canScan |-> count < MAX_FREE_SCANS]

\* The count getScanStatus takes from the data it read (no data: month 0).
StatusCount(data, currentMonth) ==
    IF data.month = currentMonth THEN data.count ELSE 0

\* newCount without the reset of a month that has passed.
NewCount_NoReset(data, currentMonth) == data.count + 1

\* The newCount incrementScanCount takes from the data it read.
NewCount(data, currentMonth) ==
    IF data.month = currentMonth THEN data.count + 1 ELSE 1

\* A call of getScanStatus ("check" in handleCapture, "reload" in
\* loadScanStatus, "status" by itself) or of incrementScanCount ("increment"
\* in handleCapture, "count" by itself) that starts: currentMonth =
\* getCurrentMonth(), then await getCurrentUserId().
StartCall(stage, currentMonth) ==
    [stage |-> stage, pc |-> "session", cm |-> currentMonth, count |-> 0, seen |-> 0,
     outcome |-> "none"]

\* The call runs incrementScanCount.
Incrementing(c) == c.stage \in {"increment", "count"}

\* The call runs syncScanLimitToCloud: getCurrentUserId(), loadLocalData(),
\* fetchCloudData() and saveCloudData(), in this order.
Syncing(c) == c.stage = "sync"

\* The screen shows the camera with the Scan button (so cameraRef.current
\* is set): the status is loaded, the limit is not reached, no result is
\* shown.
CameraShown == ~isLoadingStatus /\ scanStatus.canScan /\ ~scanned

InitScan ==
    /\ pc = "scanner"
    /\ ocrText = <<>>
    /\ textType = "string"
    /\ ingredients = NoList
    /\ ingrSrc = NoList
    /\ nextId = 0
    /\ hasCrypto = TRUE
    /\ reads = FixedReads
    /\ steps = NoList
    /\ stepSrc = NoList
    /\ stepVia = "none"
    /\ recipe = NoRecipe
    /\ originalServings = 0
    /\ targetServings = 0
    /\ scaled = NoRecipe
    /\ rescaled = NoRecipe
    /\ nextRef = 0
    /\ NoFormat
    /\ month = 1
    /\ signedIn \in BOOLEAN
    /\ local \in {NoRow} \cup {[month |-> 1, count |-> c] : c \in StartCounts}
    /\ cloud = IF signedIn THEN local ELSE NoRow
    /\ calls = [t \in Calls |-> IF t = 1 THEN StartCall("reload", 1) ELSE Idle]
    /\ scanStatus = NoStatus
    /\ isLoadingStatus = TRUE
    /\ isProcessing = FALSE
    /\ scanned = FALSE
    /\ scanError = FALSE
    /\ presses = 0

\* The Scan button is pressed: handleCapture starts with getScanStatus().
PressScan ==
    /\ CameraShown
    /\ ~isProcessing
    /\ presses < MaxPresses
    /\ \E t \in Calls :
          /\ calls[t] = Idle
          /\ \A u \in 1..(t - 1) : calls[u] # Idle
          /\ calls' = [calls EXCEPT ![t] = StartCall("check", month)]
    /\ presses' = presses + 1
    /\ UNCHANGED <<pc, ocrText, textType, ingrVars, stepVars, scaleVars, formatVars,
                   limitVars, scanStatus, isLoadingStatus, isProcessing, scanned,
                   scanError>>

\* getCurrentUserId() returns: the user's id, or null when nobody is signed
\* in or the request fails.
GetSession ==
    /\ \E t \in Calls, userId \in BOOLEAN :
          /\ calls[t].pc = "session"
          /\ userId => signedIn
          /\ calls' = [calls EXCEPT ![t] =
                          IF Syncing(calls[t])
                          THEN IF userId THEN [calls[t] EXCEPT !.pc = "load"] ELSE Idle
                          ELSE [calls[t] EXCEPT !.pc = IF userId THEN "fetch" ELSE "load"]]
    /\ UNCHANGED <<pc, ocrText, textType, ingrVars, stepVars, scaleVars, formatVars,
                   limitVars, screenVars>>

\* What a call goes on with after fetchCloudData returned data.
Fetched(c, data) ==
    IF Syncing(c)
    THEN IF data.month = c.cm
         THEN IF data.count >= c.count
              THEN Idle
              ELSE [c EXCEPT !.pc = "saveCloud"]
         ELSE [c EXCEPT !.pc = "saveCloud"]
    ELSE IF Incrementing(c)
    THEN [c EXCEPT !.seen = data.month, !.count = NewCount(data, c.cm),
                   !.pc = "saveCloud"]
    ELSE [c EXCEPT !.seen = data.month, !.count = StatusCount(data, c.cm),
                   !.pc = IF data.month = c.cm THEN "backup" ELSE "saveCloud"]

\* fetchCloudData(userId) returns: the row, or null when there is none or
\* the request fails.
FetchCloud ==
    /\ \E t \in Calls, data \in {cloud, NoRow} :
          /\ calls[t].pc = "fetch"
          /\ calls' = [calls EXCEPT ![t] = Fetched(calls[t], data)]
    /\ UNCHANGED <<pc, ocrText, textType, ingrVars, stepVars, scaleVars, formatVars,
                   limitVars, screenVars>>

\* saveCloudData(userId, currentMonth, count) returns: true with the row
\* upserted, or false. Only incrementScanCount looks at the result.
SaveCloud ==
    /\ \E t \in Calls, saved \in BOOLEAN :
          /\ calls[t].pc = "saveCloud"
          /\ cloud' = IF saved THEN [month |-> calls[t].cm, count |-> calls[t].count]
                                ELSE cloud
          /\ calls' = [calls EXCEPT ![t] =
                          IF Syncing(calls[t])
                          THEN Idle
                          ELSE [calls[t] EXCEPT !.pc =
                                   IF Incrementing(calls[t]) /\ ~saved THEN "load"
                                                                             ELSE "backup"]]
    /\ UNCHANGED <<pc, ocrText, textType, ingrVars, stepVars, scaleVars, formatVars,
                   month, signedIn, local, screenVars>>

\* getScanStatus or incrementScanCount returns in call t, whose locals are
\* c, and the handler goes on to its next await: handleCapture shows the
\* limit or calls capture() and then incrementScanCount(), after which it
\* calls loadScanStatus(); loadScanStatus sets the status; a call of the
\* service by itself is over. capture() starts
\* a capture if the camera is there (its isProcessing is the one of the
\* render in which Scan was pressed, false or else the button was disabled)
\* and returns at once if not.
Resume(t, c) ==
    IF c.stage = "check" /\ c.count >= MAX_FREE_SCANS
    THEN /\ scanStatus' = ScanStatusOf(c.count, c.cm)
         /\ calls' = [calls EXCEPT ![t] = Idle]
         /\ UNCHANGED <<isLoadingStatus, isProcessing, scanned, scanError>>
    ELSE IF c.stage = "check" /\ CameraShown
    THEN /\ isProcessing' = TRUE
         /\ scanError' = FALSE
         /\ calls' = [calls EXCEPT ![t] = [c EXCEPT !.stage = "capture", !.pc = "photo"]]
         /\ UNCHANGED <<scanStatus, isLoadingStatus, scanned>>
    ELSE IF c.stage = "check"
    THEN /\ calls' = [calls EXCEPT ![t] = StartCall("increment", month)]
         /\ UNCHANGED <<scanStatus, isLoadingStatus, isProcessing, scanned, scanError>>
    ELSE IF c.stage = "increment"
    THEN /\ calls' = [calls EXCEPT ![t] = StartCall("reload", month)]
         /\ UNCHANGED <<scanStatus, isLoadingStatus, isProcessing, scanned, scanError>>
    ELSE IF c.stage \in {"status", "count"}
    THEN /\ calls' = [calls EXCEPT ![t] = Idle]
         /\ UNCHANGED <<scanStatus, isLoadingStatus, isProcessing, scanned, scanError>>
    ELSE /\ scanStatus' = ScanStatusOf(c.count, c.cm)
         /\ isLoadingStatus' = FALSE
         /\ calls' = [calls EXCEPT ![t] = Idle]
         /\ UNCHANGED <<isProcessing, scanned, scanError>>

\* loadLocalData() returns what AsyncStorage holds.
LoadLocal ==
    /\ \E t \in Calls :
          /\ calls[t].pc = "load"
          /\ IF Syncing(calls[t])
             THEN /\ calls' = [calls EXCEPT ![t] =
                                 IF local.month # calls[t].cm
                                 THEN Idle
                                 ELSE [calls[t] EXCEPT !.seen = local.month,
                                                       !.count = local.count,
                                                       !.pc = "fetch"]]
                  /\ UNCHANGED <<scanStatus, isLoadingStatus, isProcessing, scanned,
                                 scanError>>
             ELSE IF Incrementing(calls[t])
             THEN /\ calls' = [calls EXCEPT ![t] =
                                 [calls[t] EXCEPT !.seen = local.month,
                                                  !.count = NewCount(local, calls[t].cm),
                                                  !.pc = "saveLocal"]]
                  /\ UNCHANGED <<scanStatus, isLoadingStatus, isProcessing, scanned,
                                 scanError>>
             ELSE IF local.month # calls[t].cm
             THEN /\ calls' = [calls EXCEPT ![t] =
                                 [calls[t] EXCEPT !.seen = local.month, !.count = 0,
                                                  !.pc = "saveLocal"]]
                  /\ UNCHANGED <<scanStatus, isLoadingStatus, isProcessing, scanned,
                                 scanError>>
             ELSE Resume(t, [calls[t] EXCEPT !.seen = local.month,
                                             !.count = StatusCount(local, calls[t].cm)])
    /\ UNCHANGED <<pc, ocrText, textType, ingrVars, stepVars, scaleVars, formatVars,
                   limitVars, presses>>

\* saveLocalData(currentMonth, count) returns, as the backup of the cloud
\* row ("backup") or as the count itself ("saveLocal"); the function that
\* called it returns.
SaveLocal ==
    /\ \E t \in Calls :
          /\ calls[t].pc \in {"backup", "saveLocal"}
          /\ local' = [month |-> calls[t].cm, count |-> calls[t].count]
          /\ Resume(t, calls[t])
    /\ UNCHANGED <<pc, ocrText, textType, ingrVars, stepVars, scaleVars, formatVars,
                   month, signedIn, cloud, presses>>

\* capture() ends: the photo was taken and the text recognised
\* (setOcrText), or one of the two threw (setError); then
\* setIsProcessing(false), and handleCapture calls incrementScanCount().
FinishCapture ==
    /\ \E t \in Calls, recognised \in BOOLEAN :
          /\ calls[t].stage = "capture"
          /\ scanned' = (scanned \/ recognised)
          /\ scanError' = (scanError \/ ~recognised)
          /\ calls' = [calls EXCEPT ![t] =
                          [StartCall("increment", month) EXCEPT
                              !.outcome = IF recognised THEN "ok" ELSE "failed"]]
    /\ isProcessing' = FALSE
    /\ UNCHANGED <<pc, ocrText, textType, ingrVars, stepVars, scaleVars, formatVars,
                   limitVars, scanStatus, isLoadingStatus, presses>>

\* "Scan again" on the result view: handleReset calls reset().
ScanAgain ==
    /\ ~isLoadingStatus
    /\ scanStatus.canScan
    /\ scanned
    /\ scanned' = FALSE
    /\ scanError' = FALSE
    /\ UNCHANGED <<pc, ocrText, textType, ingrVars, stepVars, scaleVars, formatVars,
                   limitVars, calls, scanStatus, isLoadingStatus, isProcessing, presses>>

\* The next calendar month begins.
NewMonth ==
    /\ month < MaxMonth
    /\ month' = month + 1
    /\ UNCHANGED <<pc, ocrText, textType, ingrVars, stepVars, scaleVars, formatVars,
                   signedIn, cloud, local, calls, screenVars>>

NextScan ==
    \/ PressScan \/ GetSession \/ FetchCloud \/ SaveCloud \/ LoadLocal \/ SaveLocal
    \/ FinishCapture \/ ScanAgain \/ NewMonth

SpecScan == InitScan /\ [][NextScan]_vars

(***************************************************************************)
(* The scan limit service by itself: getScanStatus and incrementScanCount  *)
(* are called, up to MaxOverlap calls at a time, over the months.          *)
(***************************************************************************)
MaxOverlap == 1

InitLimit ==
    /\ pc = "limits"
    /\ ocrText = <<>>
    /\ textType = "string"
    /\ ingredients = NoList
    /\ ingrSrc = NoList
    /\ nextId = 0
    /\ hasCrypto = TRUE
    /\ reads = FixedReads
    /\ steps = NoList
    /\ stepSrc = NoList
    /\ stepVia = "none"
    /\ recipe = NoRecipe
    /\ originalServings = 0
    /\ targetServings = 0
    /\ scaled = NoRecipe
    /\ rescaled = NoRecipe
    /\ nextRef = 0
    /\ NoFormat
    /\ month = 1
    /\ signedIn \in BOOLEAN
    /\ local \in {NoRow} \cup {[month |-> 1, count |-> c] : c \in 0..MAX_FREE_SCANS}
    /\ cloud = IF signedIn THEN local ELSE NoRow
    /\ calls = [t \in Calls |-> Idle]
    /\ scanStatus = NoStatus
    /\ isLoadingStatus = TRUE
    /\ isProcessing = FALSE
    /\ scanned = FALSE
    /\ scanError = FALSE
    /\ presses = 0

\* getScanStatus() or incrementScanCount() is called, while the
\* counts stored and the counts the calls in flight hold are within the
\* limit.
CallLimit ==
    /\ Cardinality({t \in Calls : calls[t] # Idle}) < MaxOverlap
    /\ cloud.count <= MAX_FREE_SCANS
    /\ local.count <= MAX_FREE_SCANS
    /\ \A t \in Calls : calls[t].count <= MAX_FREE_SCANS
    /\ \E t \in Calls, stage \in {"status", "count"} :
          /\ calls[t] = Idle
          /\ \A u \in 1..(t - 1) : calls[u] # Idle
          /\ calls' = [calls EXCEPT ![t] = StartCall(stage, month)]
    /\ UNCHANGED <<pc, ocrText, textType, ingrVars, stepVars, scaleVars, formatVars,
                   limitVars, screenVars>>

NextLimit ==
    \/ CallLimit \/ GetSession \/ FetchCloud \/ SaveCloud \/ LoadLocal \/ SaveLocal
    \/ NewMonth

SpecLimit == InitLimit /\ [][NextLimit]_vars

(***************************************************************************)
(* The useScanner hook by itself: capture() and reset() are called by the   *)
(* screen that uses the hook, at any time; a capture is followed one await *)
(* at a time through takePictureAsync, the fetch of callVisionApi and the   *)
(* reading of the response.                                                *)
(***************************************************************************)
\* The texts the Vision API recognises.
RecognisedTexts ==
    {<<"2", " ", "c", "u", "p", "s", " ", "f", "l", "o", "u", "r">>,
     <<"P", "r", "e", "h", "e", "a", "t", " ", "o", "v", "e", "n">>}

\* No capture in this slot.
NoCapture == [stage |-> "none", pc |-> "idle", outcome |-> "none", text |-> <<>>,
              reset |-> FALSE]

InitCapture ==
    /\ pc = "hook"
    /\ ocrText = <<>>
    /\ textType = "string"
    /\ ingredients = NoList
    /\ ingrSrc = NoList
    /\ nextId = 0
    /\ hasCrypto = TRUE
    /\ reads = FixedReads
    /\ steps = NoList
    /\ stepSrc = NoList
    /\ stepVia = "none"
    /\ recipe = NoRecipe
    /\ originalServings = 0
    /\ targetServings = 0
    /\ scaled = NoRecipe
    /\ rescaled = NoRecipe
    /\ nextRef = 0
    /\ NoFormat
    /\ month = 0
    /\ signedIn = FALSE
    /\ cloud = NoRow
    /\ local = NoRow
    /\ calls = [t \in Calls |-> NoCapture]
    /\ scanStatus = NoStatus
    /\ isLoadingStatus = FALSE
    /\ isProcessing = FALSE
    /\ scanned = FALSE
    /\ scanError = FALSE
    /\ presses = 0

\* capture() is called with the camera mounted, through a closure whose
\* isProcessing is false (the closure of the first render, or of any render
\* since in which no capture was in flight): setIsProcessing(true),
\* setError(null), and takePictureAsync is awaited. A call that sees
\* isProcessing true or no camera returns and changes nothing.
Capture(t) ==
    /\ presses < MaxPresses
    /\ calls[t].stage # "capture"
    /\ \A u \in 1..(t - 1) : calls[u].stage = "capture"
    /\ \E seen \in {FALSE, isProcessing} : ~seen
    /\ calls' = [calls EXCEPT ![t] = [NoCapture EXCEPT !.stage = "capture", !.pc = "photo"]]
    /\ isProcessing' = TRUE
    /\ scanError' = FALSE
    /\ presses' = presses + 1
    /\ UNCHANGED <<pc, ocrText, textType, ingrVars, stepVars, scaleVars, formatVars,
                   limitVars, scanStatus, isLoadingStatus, scanned>>

\* Mutant: a failure is not caught.
EndCapture_NoCatch(t, outcome, text) ==
    /\ calls' = [calls EXCEPT ![t] = [@ EXCEPT !.stage = "done", !.pc = "idle",
                                               !.outcome = outcome, !.text = text]]
    /\ IF outcome = "ok"
       THEN /\ ocrText' = text
            /\ scanned' = TRUE
            /\ UNCHANGED scanError
       ELSE UNCHANGED <<ocrText, scanned, scanError>>
    /\ isProcessing' = FALSE
    /\ UNCHANGED <<pc, textType, ingrVars, stepVars, scaleVars, formatVars,
                   limitVars, scanStatus, isLoadingStatus, presses>>

\* The try statement of capture() is left: setOcrText(text) at its end, or
\* setError(message) in the catch clause, and setIsProcessing(false) in the
\* finally clause.
EndCapture(t, outcome, text) ==
    /\ calls' = [calls EXCEPT ![t] = [@ EXCEPT !.stage = "done", !.pc = "idle",
                                               !.outcome = outcome, !.text = text]]
    /\ IF outcome = "ok"
       THEN /\ ocrText' = text
            /\ scanned' = TRUE
            /\ UNCHANGED scanError
       ELSE /\ scanError' = TRUE
            /\ UNCHANGED <<ocrText, scanned>>
    /\ isProcessing' = FALSE
    /\ UNCHANGED <<pc, textType, ingrVars, stepVars, scaleVars, formatVars,
                   limitVars, scanStatus, isLoadingStatus, presses>>

\* takePictureAsync settles: with a photo, and ocrImage calls callVisionApi,
\* which awaits the fetch; without base64 data, by throwing, or with a
\* photo that ocrImage refuses (no API key, no image data).
TakePicture(t) ==
    /\ calls[t].stage = "capture"
    /\ calls[t].pc = "photo"
    /\ \E photo \in BOOLEAN :
          IF photo
          THEN /\ calls' = [calls EXCEPT ![t].pc = "fetch"]
               /\ UNCHANGED <<pc, ocrText, textType, ingrVars, stepVars, scaleVars,
                              formatVars, limitVars, screenVars>>
          ELSE EndCapture(t, "failed", <<>>)

\* The fetch of callVisionApi settles: with a response, or by throwing when
\* the timeout aborts it or the network fails.
Fetch(t) ==
    /\ calls[t].stage = "capture"
    /\ calls[t].pc = "fetch"
    /\ \E settled \in {"response", "timeout", "network"} :
          IF settled = "response"
          THEN /\ calls' = [calls EXCEPT ![t].pc = "body"]
               /\ UNCHANGED <<pc, ocrText, textType, ingrVars, stepVars, scaleVars,
                              formatVars, limitVars, screenVars>>
          ELSE EndCapture(t, "failed", <<>>)

\* The response is read: a text was recognised, or the status is not ok,
\* the API reports an error or there is no text, and callVisionApi throws.
ReadBody(t) ==
    /\ calls[t].stage = "capture"
    /\ calls[t].pc = "body"
    /\ \/ \E text \in RecognisedTexts : EndCapture(t, "ok", text)
       \/ EndCapture(t, "failed", <<>>)

\* reset(): setOcrText(null), setError(null). The captures in flight are
\* marked as having seen a reset.
Reset ==
    /\ ocrText' = <<>>
    /\ scanned' = FALSE
    /\ scanError' = FALSE
    /\ calls' = [t \in Calls |-> IF calls[t].stage = "capture"
                                 THEN [calls[t] EXCEPT !.reset = TRUE]
                                 ELSE calls[t]]
    /\ UNCHANGED <<pc, textType, ingrVars, stepVars, scaleVars, formatVars,
                   limitVars, scanStatus, isLoadingStatus, isProcessing, presses>>

NextCapture ==
    \/ \E t \in Calls : Capture(t)
    \/ \E t \in Calls : TakePicture(t)
    \/ \E t \in Calls : Fetch(t)
    \/ \E t \in Calls : ReadBody(t)
    \/ Reset

SpecCapture == InitCapture /\ [][NextCapture]_vars

\* The camera, the network and the server answer: every awaited promise of
\* a capture settles.
SpecCaptureFair ==
    /\ SpecCapture
    /\ \A t \in Calls :
          WF_vars(TakePicture(t)) /\ WF_vars(Fetch(t)) /\ WF_vars(ReadBody(t))

(***************************************************************************)
(* The scan limit service with the sync after login: a user who is not     *)
(* signed in signs in, and syncScanLimitToCloud is called like the other   *)
(* two functions.                                                          *)
(***************************************************************************)
\* The user signs in; a new user has no row in scan_limits.
SignIn ==
    /\ ~signedIn
    /\ signedIn' = TRUE
    /\ UNCHANGED <<pc, ocrText, textType, ingrVars, stepVars, scaleVars, formatVars,
                   month, cloud, local, calls, screenVars>>

\* syncScanLimitToCloud() is called.
CallSync ==
    /\ Cardinality({t \in Calls : calls[t] # Idle}) < MaxOverlap
    /\ \E t \in Calls :
          /\ calls[t] = Idle
          /\ \A u \in 1..(t - 1) : calls[u] # Idle
          /\ calls' = [calls EXCEPT ![t] = StartCall("sync", month)]
    /\ UNCHANGED <<pc, ocrText, textType, ingrVars, stepVars, scaleVars, formatVars,
                   limitVars, screenVars>>

NextSync ==
    \/ CallLimit \/ CallSync \/ SignIn \/ GetSession \/ FetchCloud \/ SaveCloud
    \/ LoadLocal \/ SaveLocal \/ NewMonth

SpecSync == InitLimit /\ [][NextSync]_vars

(***************************************************************************)
(* The three functions together.                                           *)
(***************************************************************************)
Init == InitIngr \/ InitSteps \/ InitScale
Next == NextIngr \/ NextSteps \/ NextScale
Spec == Init /\ [][Next]_vars

(***************************************************************************)
(* Claims about parseIngredients.                                          *)
(***************************************************************************)
\* The line's quantity token is a fraction or a mixed number whose
\* denominator is 0.
ZeroDenominator(line) ==
    LET c == CleanLine(line)
        mx == MixedPrefix(c)
        fr == FractionPrefix(c)
    IN  IF mx.ok THEN DigitsValue(mx.g3) = 0
        ELSE fr.ok /\ DigitsValue(fr.g2) = 0

\* C1: every ingredient parseIngredients returns has a numeric quantity
\* strictly greater than 0, and a line whose quantity token has denominator 0
\* contributes no ingredient.
C1_QuantityPositive ==
    pc = "ingredients" =>
        /\ \A k \in 1..Len(ingredients) :
               /\ ~ingredients[k].quantity.nan
               /\ ingredients[k].quantity.m > 0
        /\ \A i \in 1..Len(TextLines) :
               ZeroDenominator(TextLines[i]) => i \notin Range(ingrSrc)

\* A text with a zero-denominator line and a line that is emitted.
C1_Witness ==
    /\ pc = "ingredients"
    /\ \E i \in 1..Len(TextLines) : ZeroDenominator(TextLines[i])
    /\ Len(ingredients) >= 1

\* The markers the specification names: whitespace, dash, asterisk, bullet.
SpecMarkerClass == WhiteSpace \cup {"-", "*", BULLET}

\* A line that, after its leading markers are stripped, starts with a
\* quantity token, has a positive quantity and a non-empty label.
LineAccepted(line, markers) ==
    LET c == Trim(Drop(line, SpanLen(line, markers)))
        qm == QuantityMatch(c)
        rem == Trim(Drop(c, qm.len))
    IN  /\ qm.ok
        /\ IsPositive(parseFraction(qm.str))
        /\ StripOf(Trim(Drop(rem, UnitMatchLen(rem)))) # <<>>

\* The returned list holds, in line order, one ingredient for each line that
\* is accepted under the marker class and nothing else.
OnePerAcceptedLine(markers) ==
    /\ \A k \in 1..(Len(ingrSrc) - 1) : ingrSrc[k] < ingrSrc[k + 1]
    /\ Range(ingrSrc) = {i \in 1..Len(TextLines) : LineAccepted(TextLines[i], markers)}
    /\ Len(ingredients) = Len(ingrSrc)

\* C2: parseIngredients returns, in line order, exactly one ingredient for
\* each line that after stripping its leading markers (dash, asterisk,
\* bullet, whitespace) starts with a quantity token, has a positive quantity
\* and a non-empty label, and nothing for any other line.
C2_OnePerAcceptedLine ==
    pc = "ingredients" => OnePerAcceptedLine(SpecMarkerClass)

\* The line starts with a minus sign directly followed by a quantity token
\* of positive value: a negative quantity.
NegativeQuantity(line) ==
    LET t == Trim(line)
        qm == QuantityMatch(Drop(t, 1))
    IN  /\ t # <<>>
        /\ t[1] = "-"
        /\ qm.ok
        /\ IsPositive(parseFraction(qm.str))

\* The line's leading quantity token has the value 0.
ZeroQuantity(line) ==
    LET qm == QuantityMatch(CleanLine(line))
        q == parseFraction(qm.str)
    IN  qm.ok /\ ~q.nan /\ q.m = 0

\* C3 as stated: a line whose leading quantity is 0 or negative produces no
\* ingredient.
C3_ZeroOrNegativeDropped ==
    pc = "ingredients" =>
        \A i \in 1..Len(TextLines) :
            (ZeroQuantity(TextLines[i]) \/ NegativeQuantity(TextLines[i]))
                => i \notin Range(ingrSrc)

\* What the line yields when its first character is removed.
WithoutSign(line) == ParseLine(Drop(Trim(line), 1))

\* C3 as amended: a line whose leading quantity is 0 produces no ingredient;
\* a minus sign before the quantity is stripped as a dash marker, so the line
\* yields what it would yield without the sign (the positive quantity).
C3_ZeroDroppedMinusStripped ==
    pc = "ingredients" =>
        \A i \in 1..Len(TextLines) :
            /\ ZeroQuantity(TextLines[i]) => i \notin Range(ingrSrc)
            /\ (NegativeQuantity(TextLines[i]) /\ WithoutSign(TextLines[i]) # <<>>)
                   => \E k \in 1..Len(ingredients) :
                          /\ ingrSrc[k] = i
                          /\ ingredients[k].quantity = WithoutSign(TextLines[i])[1].quantity
                          /\ ingredients[k].quantity.m > 0

\* A text with a zero-quantity line and a minus-sign line.
C3_Witness ==
    /\ pc = "ingredients"
    /\ \E i \in 1..Len(TextLines) : ZeroQuantity(TextLines[i])
    /\ \E i \in 1..Len(TextLines) :
           NegativeQuantity(TextLines[i]) /\ i \in Range(ingrSrc)

(***************************************************************************)
(* Claims about parseSteps.                                                *)
(***************************************************************************)
\* parseSteps got a non-empty string and has returned.
StepsParsed == pc = "steps" /\ textType = "string" /\ ocrText # <<>>

\* The instruction-header lines whose section yields at least one step.
YieldingHeaders(lines) ==
    {i \in 1..Len(lines) :
         /\ isHeader(Trim(lines[i]), STEP_HEADERS)
         /\ Len(extractStepsFromSection(lines, i + 1, <<>>)) > 0}

Least(S) == CHOOSE i \in S : \A j \in S : i <= j

\* What the claim says parseSteps returns for the lines.
ExpectedSteps(lines) ==
    LET hs == YieldingHeaders(lines)
        numbered == findNumberedSteps(lines)
    IN  IF hs # {} THEN extractStepsFromSection(lines, Least(hs) + 1, <<>>)
        ELSE IF Len(numbered) > 0 THEN numbered
        ELSE findBulletedSteps(lines)

\* C4: when some instruction-header section yields a step, the steps of the
\* first such section are returned whatever numbered or bulleted lines the
\* text holds; otherwise an accepted numbered result is returned in
\* preference to a bulleted one.
C4_StrategyOrder ==
    StepsParsed => steps = StepTexts(ExpectedSteps(TextLines))

\* The header strategy answered although the numbered strategy accepts the
\* same text with a different result.
C4_Witness ==
    /\ StepsParsed
    /\ stepVia = "header"
    /\ Len(findNumberedSteps(TextLines)) > 0
    /\ StepTexts(findNumberedSteps(TextLines)) # steps

\* s begins with a numbering prefix such as "1.", "2)" or "Step 3:".
HasNumberingPrefix(s) ==
    LET skip == IF StartsWith(ToLowerCase(s), <<"s", "t", "e", "p">>)
                THEN 4 + SpanLen(Drop(s, 4), WhiteSpace)
                ELSE 0
        d == SpanLen(Drop(s, skip), Digits)
    IN  /\ d >= 1
        /\ Len(s) > skip + d
        /\ s[skip + d + 1] \in {".", ")", ":"}

\* C5: every string parseSteps returns is non-empty, has no leading or
\* trailing whitespace and begins neither with a numbering prefix nor with a
\* bullet marker.
C5_StepsAreClean ==
    pc = "steps" =>
        \A k \in 1..Len(steps) :
            /\ steps[k] # <<>>
            /\ steps[k][1] \notin WhiteSpace
            /\ steps[k][Len(steps[k])] \notin WhiteSpace
            /\ ~HasNumberingPrefix(steps[k])
            /\ steps[k][1] \notin {"-", BULLET, "*", MIDDOT}

\* C6 as stated: the steps returned are in the order of the lines they were
\* taken from.
C6_SourceOrder ==
    pc = "steps" => \A k \in 1..(Len(stepSrc) - 1) : stepSrc[k] < stepSrc[k + 1]

\* The number a returned step's source line carries.
StepNumber(k) == NumberedMatch(Trim(TextLines[stepSrc[k]])).num

\* C6 as amended: steps of the header and of the bulleted strategy are in
\* source-line order; steps of the numbered strategy are in ascending order
\* of their numbers, equal numbers in source-line order.
C6_OrderByStrategy ==
    pc = "steps" =>
        /\ Len(stepSrc) = Len(steps)
        /\ stepVia \in {"header", "bulleted"} =>
               \A k \in 1..(Len(stepSrc) - 1) : stepSrc[k] < stepSrc[k + 1]
        /\ stepVia = "numbered" =>
               \A k \in 1..(Len(stepSrc) - 1) :
                   \/ StepNumber(k) < StepNumber(k + 1)
                   \/ (StepNumber(k) = StepNumber(k + 1) /\ stepSrc[k] < stepSrc[k + 1])

\* The numbered strategy returned steps out of source order, two of them
\* with the same number.
C6_Witness ==
    /\ pc = "steps"
    /\ stepVia = "numbered"
    /\ \E k \in 1..(Len(stepSrc) - 1) : stepSrc[k] > stepSrc[k + 1]
    /\ \E k \in 1..(Len(stepSrc) - 1) : StepNumber(k) = StepNumber(k + 1)

\* The lines that carry a number prefix and clean to a non-empty text.
NumberedCandidates(lines) ==
    {i \in 1..Len(lines) :
         NumberedMatch(Trim(lines[i])).ok /\ cleanStepLine(Trim(lines[i])) # <<>>}

\* None of the three strategies succeeds on the lines.
NoStrategySucceeds(lines) ==
    LET cands == NumberedCandidates(lines)
    IN  /\ YieldingHeaders(lines) = {}
        /\ \/ Cardinality(cands) < 2
           \/ \A i \in cands : NumberedMatch(Trim(lines[i])).num > 2
        /\ Len(BulletLoop(lines, 1, BulletStart)) < 2

\* C7: parseSteps returns the empty list for a value that is not a string,
\* for the empty string and for a text on which no strategy succeeds.
C7_EmptyWhenNothingFound ==
    pc = "steps" =>
        /\ (textType # "string" \/ ocrText = <<>>) => (steps = <<>> /\ stepVia = "none")
        /\ (StepsParsed /\ NoStrategySucceeds(TextLines)) => (steps = <<>> /\ stepVia = "none")

\* A text with a numbered line and a bulleted line on which no strategy
\* succeeds.
C7_Witness ==
    /\ StepsParsed
    /\ NoStrategySucceeds(TextLines)
    /\ NumberedCandidates(TextLines) # {}
    /\ Len(BulletLoop(TextLines, 1, BulletStart)) = 1
    /\ steps = <<>>

(***************************************************************************)
(* Claims about scaleIngredients.                                          *)
(***************************************************************************)
\* scaleIngredients has returned for positive, unequal serving counts.
ScaledProperly ==
    /\ pc \in {"scaled", "rescaled"}
    /\ originalServings > 0
    /\ targetServings > 0
    /\ originalServings # targetServings

\* C8: for positive, unequal serving counts scaleIngredients returns a new
\* list of the input's length and order in which every quantity is the input
\* quantity times targetServings / originalServings, and id, unit and label
\* are those of the input ingredient at the same position.
C8_ScaledByRatio ==
    ScaledProperly =>
        /\ scaled.ref # recipe.ref
        /\ Len(scaled.items) = Len(recipe.items)
        /\ \A k \in 1..Len(recipe.items) :
               /\ scaled.items[k].quantity =
                      FMul(recipe.items[k].quantity,
                           FDiv(FromInt(targetServings), FromInt(originalServings)))
               /\ scaled.items[k].id = recipe.items[k].id
               /\ scaled.items[k].unit = recipe.items[k].unit
               /\ scaled.items[k].label = recipe.items[k].label

\* A recipe of two different ingredients was scaled and a quantity changed.
C8_Witness ==
    /\ ScaledProperly
    /\ Len(recipe.items) = 2
    /\ recipe.items[1].label # recipe.items[2].label
    /\ scaled.items[1].quantity # recipe.items[1].quantity

\* C9: for a non-positive serving count, or equal serving counts,
\* scaleIngredients returns a list equal in value to the input that is a
\* different list object.
C9_CopyWhenNotScaling ==
    (/\ pc \in {"scaled", "rescaled"}
     /\ \/ originalServings <= 0
        \/ targetServings <= 0
        \/ originalServings = targetServings)
        => /\ scaled.items = recipe.items
           /\ scaled.ref # recipe.ref

\* A non-empty recipe went through a no-op branch.
C9_Witness ==
    /\ pc = "scaled"
    /\ originalServings <= 0
    /\ targetServings > 0
    /\ Len(recipe.items) >= 1
    /\ scaled.items = recipe.items

\* The recipe was scaled from a positive count to a positive count and back.
RoundTrip ==
    pc = "rescaled" /\ originalServings > 0 /\ targetServings > 0

\* C10 as stated: scaling from a to b and the result from b to a returns
\* the original quantities.
C10_RoundTripExact ==
    RoundTrip =>
        \A k \in 1..Len(recipe.items) :
            rescaled.items[k].quantity = recipe.items[k].quantity

\* a/b or b/a is a power of two.
RECURSIVE IsPowerOfTwo(_)
IsPowerOfTwo(n) == n = 1 \/ (n > 1 /\ n % 2 = 0 /\ IsPowerOfTwo(n \div 2))
RatioIsPowerOfTwo(a, b) ==
    \/ (a % b = 0 /\ IsPowerOfTwo(a \div b))
    \/ (b % a = 0 /\ IsPowerOfTwo(b \div a))

\* x * 2^(4 * MantBits) lies between y * (2^MantBits - 1)^4 and
\* y * (2^MantBits + 1)^4: x is y up to four roundings.
WithinFourRoundings(x, y) ==
    LET e == IF x.e < y.e THEN x.e ELSE y.e
        xn == x.m * Pow2(x.e - e)
        yn == y.m * Pow2(y.e - e)
    IN  /\ ~x.nan
        /\ ~y.nan
        /\ xn * Pow2(4 * MantBits) <= yn * (Pow2(MantBits) + 1) ^ 4
        /\ xn * Pow2(4 * MantBits) >= yn * (Pow2(MantBits) - 1) ^ 4

\* C10 as amended: the round trip returns the original quantities exactly
\* when the ratio of the serving counts is a power of two (4 to 8 and back),
\* and otherwise up to the rounding of its four floating-point operations.
C10_RoundTripUpToRounding ==
    RoundTrip =>
        /\ Len(rescaled.items) = Len(recipe.items)
        /\ \A k \in 1..Len(recipe.items) :
               /\ RatioIsPowerOfTwo(originalServings, targetServings)
                      => rescaled.items[k].quantity = recipe.items[k].quantity
               /\ WithinFourRoundings(rescaled.items[k].quantity, recipe.items[k].quantity)

\* A round trip over a ratio that is no power of two came back with a
\* quantity that is not the original one.
C10_Witness ==
    /\ RoundTrip
    /\ Len(recipe.items) >= 1
    /\ ~RatioIsPowerOfTwo(originalServings, targetServings)
    /\ rescaled.items[1].quantity # recipe.items[1].quantity

(***************************************************************************)
(* C11: the ids of the ingredients.                                        *)
(***************************************************************************)
\* The ids generateId has returned so far, in the order of the calls.
Issued == [k \in 1..nextId |-> generateId(hasCrypto, reads[k])]

\* C11: every ingredient parseIngredients produced has an id distinct from
\* the id of every other ingredient of the same call and of any earlier
\* call, with crypto.randomUUID and with the timestamp-and-random fallback.
C11_IdsNeverReused ==
    \A j, k \in 1..nextId : j # k => Issued[j] # Issued[k]


(***************************************************************************)
(* C12: the formatted quantity.                                            *)
(***************************************************************************)
\* The place of the decimal point in a string, 0 when it has none.
PointAt(str) ==
    IF \E i \in 1..Len(str) : str[i] = "." THEN CHOOSE i \in 1..Len(str) : str[i] = "." ELSE 0
\* The number of digits after the point.
FractionLen(str) == IF PointAt(str) = 0 THEN 0 ELSE Len(str) - PointAt(str)
\* The digits of a string without its point, as an integer.
DigitsOf(str) == DigitsValue(SelectSeq(str, LAMBDA c : c # "."))

\* A decimal numeral of at most d fraction digits, with a digit before the
\* point, no trailing zero after it and no point at the end.
PlainDecimal(str, d) ==
    /\ str # <<>>
    /\ \A i \in 1..Len(str) : str[i] \in Digits \cup {"."}
    /\ PointAt(str) # 1
    /\ str[Len(str)] # "."
    /\ PointAt(str) # 0 => str[Len(str)] # "0"
    /\ FractionLen(str) <= d

\* The value of a numeral of at most d fraction digits, in units of 10^-d.
UnitsOf(str, d) == DigitsOf(str) * 10 ^ (d - FractionLen(str))

\* floor(x + 1/2) for x = (n/den): the integer nearest to x, a half rounded
\* up.
HalfUp(n, den) == (2 * n + den) \div (2 * den)

\* q * 10^d rounded to the nearest integer, a half rounded up: q rounded
\* to d decimals, in units of 10^-d.
RoundedUnits(q, d) == HalfUp(Shifted(q, d)[1], Shifted(q, d)[2])

\* The product q * 10^d as formatQuantity computes it, and the same rounded.
FloatProduct(q, d) ==
    RoundTo(FormatBits, q.m * RoundTo(FormatBits, 10 ^ d, 1, 0).m, 1,
            q.e + RoundTo(FormatBits, 10 ^ d, 1, 0).e)
ProductIsExact(q, d) ==
    Shifted(FloatProduct(q, d), 0)[1] * Shifted(q, d)[2]
        = Shifted(q, d)[1] * Shifted(FloatProduct(q, d), 0)[2]
RoundedProductUnits(q, d) ==
    HalfUp(Shifted(FloatProduct(q, d), 0)[1], Shifted(FloatProduct(q, d), 0)[2])

\* C12: formatQuantity(q, d) is the decimal representation of q rounded to
\* d fraction digits (a half rounded up), without trailing zeros and
\* without a dangling decimal point.
C12_RoundedToDecimals ==
    pc = "formatted"
        => /\ PlainDecimal(formatted, fmtDecimals)
           /\ UnitsOf(formatted, fmtDecimals) = RoundedUnits(fmtQuantity, fmtDecimals)

\* C12, amended: formatQuantity(q, d) is a decimal numeral of at most d
\* fraction digits without trailing zeros and without a dangling point; its
\* value is the floating-point product q * 10^d rounded to the nearest
\* integer (a half rounded up) and divided by 10^d, which is q rounded to
\* d decimals whenever that product is exact.
C12_RoundedFloatProduct ==
    pc = "formatted"
        => /\ PlainDecimal(formatted, fmtDecimals)
           /\ UnitsOf(formatted, fmtDecimals)
                  = RoundedProductUnits(fmtQuantity, fmtDecimals)
           /\ ProductIsExact(fmtQuantity, fmtDecimals)
                  => UnitsOf(formatted, fmtDecimals)
                         = RoundedUnits(fmtQuantity, fmtDecimals)

\* A quantity whose product with 10^d is not exact was formatted, digits
\* were dropped, and the result is the quantity rounded to d decimals.
C12_Witness ==
    /\ pc = "formatted"
    /\ ~ProductIsExact(fmtQuantity, fmtDecimals)
    /\ FractionLen(formatted) = 2
    /\ UnitsOf(formatted, fmtDecimals) = RoundedUnits(fmtQuantity, fmtDecimals)


(***************************************************************************)
(* C13 to C16: the scan limit.                                             *)
(***************************************************************************)
\* C13: within a month the count stored for it never exceeds
\* MAX_FREE_SCANS, whatever the order of Scan presses, captures ending and
\* status reloads.
C13_NeverOverLimit ==
    /\ StatusCount(local, month) <= MAX_FREE_SCANS
    /\ StatusCount(cloud, month) <= MAX_FREE_SCANS

\* Call t takes a step.
Steps(t) == calls'[t] # calls[t]

\* C14: the count is incremented only after a successful OCR: no step of a
\* handleCapture whose capture failed changes what is stored.
C14_FailedAttemptNotCounted ==
    [][\A t \in DOMAIN calls :
          (Steps(t) /\ calls[t].outcome = "failed") => (cloud' = cloud /\ local' = local)]_vars

\* The row of the current month with count n.
RowOf(c, n) == [month |-> c.cm, count |-> n]

C16_NoLostUpdate ==
    [][\A t \in DOMAIN calls :
          (Steps(t) /\ Incrementing(calls[t]))
              => /\ (calls[t].pc = "saveCloud" /\ calls'[t].pc = "backup")
                    => /\ StatusCount(cloud', calls[t].cm)
                              = StatusCount(cloud, calls[t].cm) + 1
                       /\ calls[t].count = StatusCount(cloud', calls[t].cm)
                 /\ calls[t].pc = "saveLocal"
                    => /\ StatusCount(local', calls[t].cm)
                              = StatusCount(local, calls[t].cm) + 1
                       /\ calls[t].count = StatusCount(local', calls[t].cm)]_vars

(***************************************************************************)
(* C17 to C19: the strategies of parseSteps.                               *)
(***************************************************************************)
\* The members of a set of line numbers in ascending order.
Ascending(S) ==
    [k \in 1..Cardinality(S) |-> CHOOSE i \in S : Cardinality({j \in S : j < i}) = k - 1]

\* Line i of the lines is an instruction header, an end-of-section header.
StepHeaderAt(lines, i) ==
    Known(StepHeaderTable, Trim(lines[i]), isHeader(Trim(lines[i]), STEP_HEADERS))
EndHeaderAt(lines, i) ==
    Known(SectionEndTable, Trim(lines[i]), isHeader(Trim(lines[i]), SECTION_END_HEADERS))

\* The first instruction header of the lines, 0 when there is none.
FirstStepHeader(lines) ==
    LET hs == {i \in 1..Len(lines) : StepHeaderAt(lines, i)}
    IN  IF hs = {} THEN 0 ELSE Least(hs)

\* The first end-of-section header after line h, 0 when there is none.
EndHeaderAfter(lines, h) ==
    LET es == {i \in (h + 1)..Len(lines) : EndHeaderAt(lines, i)}
    IN  IF es = {} THEN 0 ELSE Least(es)

\* What follows the number prefix of a numbered line.
AfterNumber(line) == Trim(Drop(line, Numbered(line).len))

\* A numbered line whose text carries no second prefix.
PlainNumbered(line) ==
    /\ Numbered(line).ok
    /\ ~NumberedMatch(AfterNumber(line)).ok
    /\ ~BulletMatch(AfterNumber(line))

\* The lines between h and e that are neither blank nor ingredient-like.
BetweenHeaders(lines, h, e) ==
    {i \in (h + 1)..(e - 1) : Trim(lines[i]) # <<>> /\ ~IngredientLike(Trim(lines[i]))}

\* The case of C17: the first instruction header h is followed by numbered
\* lines (blank and ingredient-like lines among them) and then by the
\* end-of-section header e.
NumberedSection(lines, h, e) ==
    /\ h > 0
    /\ e > 0
    /\ BetweenHeaders(lines, h, e) # {}
    /\ \A i \in BetweenHeaders(lines, h, e) : PlainNumbered(Trim(lines[i]))

\* The lines src, their numbering stripped.
StrippedLines(lines, src) == [k \in 1..Len(src) |-> AfterNumber(Trim(lines[src[k]]))]

\* parseSteps has returned the lines src, numbering stripped.
Returned(lines, src) == steps = StrippedLines(lines, src) /\ stepSrc = src

\* C17 as stated, of the lines with first instruction header h and
\* end-of-section header e.
LinesBetweenReturned(lines, h, e) ==
    NumberedSection(lines, h, e) => Returned(lines, Ascending(BetweenHeaders(lines, h, e)))

\* C17 as stated: an instruction header followed by numbered lines and an
\* end-of-section header gives exactly the non-blank, non-ingredient-like
\* lines between the two, numbering stripped.
C17_LinesBetweenHeaders ==
    StepsParsed =>
        LinesBetweenReturned(TextLines, FirstStepHeader(TextLines),
                             EndHeaderAfter(TextLines, FirstStepHeader(TextLines)))

\* The lines between the headers that leave a text once stripped.
WithText(lines, h, e) ==
    {i \in BetweenHeaders(lines, h, e) : AfterNumber(Trim(lines[i])) # <<>>}

\* C17 as amended, of the lines with first instruction header h and
\* end-of-section header e.
TextLinesBetweenReturned(lines, h, e) ==
    (NumberedSection(lines, h, e) /\ WithText(lines, h, e) # {})
        => Returned(lines, Ascending(WithText(lines, h, e))) /\ stepVia = "header"

\* C17 as amended: of the non-blank, non-ingredient-like lines between the
\* headers those that leave a text once their numbering is stripped are
\* returned, in order and with nothing from the end header on, when there
\* is at least one of them.
C17_TextLinesBetweenHeaders ==
    StepsParsed =>
        TextLinesBetweenReturned(TextLines, FirstStepHeader(TextLines),
                                 EndHeaderAfter(TextLines, FirstStepHeader(TextLines)))

\* A numbered section was returned and a numbered line with a text stands
\* behind its end header.
NumberedBehind(lines, h, e) ==
    /\ NumberedSection(lines, h, e)
    /\ WithText(lines, h, e) # {}
    /\ Returned(lines, Ascending(WithText(lines, h, e)))
    /\ \E i \in (e + 1)..Len(lines) :
           PlainNumbered(Trim(lines[i])) /\ AfterNumber(Trim(lines[i])) # <<>>

C17_Witness ==
    /\ StepsParsed
    /\ NumberedBehind(TextLines, FirstStepHeader(TextLines),
                      EndHeaderAfter(TextLines, FirstStepHeader(TextLines)))

\* The number line i of the lines carries.
NumberAt(lines, i) == Numbered(Trim(lines[i])).num

\* The lines of S in ascending order of their numbers, lines with the same
\* number in the order of the text.
ByNumber(lines, S) ==
    [k \in 1..Cardinality(S) |->
        CHOOSE i \in S :
            Cardinality({j \in S : \/ NumberAt(lines, j) < NumberAt(lines, i)
                                   \/ (NumberAt(lines, j) = NumberAt(lines, i) /\ j < i)})
                = k - 1]

\* parseSteps has returned the lines src, cleaned.
ReturnedCleaned(lines, src) ==
    /\ steps = [k \in 1..Len(src) |-> Cleaned(Trim(lines[src[k]]))]
    /\ stepSrc = src

\* The lines that carry a leading number prefix.
WithNumber(lines) == {i \in 1..Len(lines) : Numbered(Trim(lines[i])).ok}

\* C18 as stated, of the lines.
NumberedReturned(lines) ==
    FirstStepHeader(lines) = 0 => ReturnedCleaned(lines, ByNumber(lines, WithNumber(lines)))

\* C18 as stated: with no instruction header in the text the lines that
\* carry a leading number prefix are returned in ascending order of their
\* numbers, equal numbers in the order of the text.
C18_NumberedSorted ==
    StepsParsed => NumberedReturned(TextLines)

\* The numbered lines that leave a text.
Candidates(lines) == {i \in WithNumber(lines) : Cleaned(Trim(lines[i])) # <<>>}

\* There are two candidates at least and the lowest number is at most 2.
Sequential(lines, S) == Cardinality(S) >= 2 /\ \E i \in S : NumberAt(lines, i) <= 2

\* C18 as amended, of the lines.
SequentialReturned(lines) ==
    FirstStepHeader(lines) = 0 =>
        IF Sequential(lines, Candidates(lines))
        THEN ReturnedCleaned(lines, ByNumber(lines, Candidates(lines))) /\ stepVia = "numbered"
        ELSE stepVia # "numbered"

\* C18 as amended: with no instruction header in the text, the lines that
\* carry a leading number prefix and leave a text once it is stripped are
\* returned in ascending order of their numbers, equal numbers in the order
\* of the text, when there are at least two of them and the lowest number is
\* at most 2; otherwise no numbered line is returned as such.
C18_SequentialNumberedSorted ==
    StepsParsed => SequentialReturned(TextLines)

\* Numbered lines were returned in another order than that of the text,
\* with a number 3 among them and a number without text left out.
SortedAndSkipped(lines) ==
    /\ FirstStepHeader(lines) = 0
    /\ stepVia = "numbered"
    /\ Candidates(lines) # WithNumber(lines)
    /\ \E k \in 1..(Len(stepSrc) - 1) : stepSrc[k] > stepSrc[k + 1]
    /\ \E k \in 1..Len(stepSrc) : NumberAt(lines, stepSrc[k]) = 3

C18_Witness ==
    StepsParsed /\ SortedAndSkipped(TextLines)

\* C19: when no header section yields a step, parseSteps never returns
\* exactly one step; a text whose only candidate is one numbered line or one
\* bulleted line gives the empty list.
C19_NeverOneStep ==
    (StepsParsed /\ stepVia # "header") => Len(steps) # 1

\* The bulleted lines the bulleted strategy would take.
BulletCandidates(lines) ==
    {i \in 1..Len(lines) :
         /\ BulletMatch(Trim(lines[i]))
         /\ ~IngredientLike(Cleaned(Trim(lines[i])))
         /\ Len(Cleaned(Trim(lines[i]))) > MIN_BULLET_LENGTH}

\* One numbered candidate and one bulleted candidate, no header, and
\* nothing returned.
OneOfEach(lines) ==
    /\ FirstStepHeader(lines) = 0
    /\ Cardinality(Candidates(lines)) = 1
    /\ Cardinality(BulletCandidates(lines)) = 1
    /\ steps = <<>>

C19_Witness ==
    StepsParsed /\ OneOfEach(TextLines)

(***************************************************************************)
(* C20: the quantity token.                                                *)
(***************************************************************************)
\* The value a quantity token at the start of c denotes, as a fraction
\* <<n, d>> of integers: a mixed number if c starts with one, else a simple
\* fraction if it starts with one, else a decimal or an integer.
TokenValue(c, mx, fr, de) ==
    IF mx.ok
    THEN <<DigitsValue(mx.g1) * DigitsValue(mx.g3) + DigitsValue(mx.g2), DigitsValue(mx.g3)>>
    ELSE IF fr.ok
    THEN <<DigitsValue(fr.g1), DigitsValue(fr.g2)>>
    ELSE <<DigitsOf(Take(c, de.len)), 10 ^ FractionLen(Take(c, de.len))>>
ValueOf(c) == TokenValue(c, MixedPrefix(c), FractionPrefix(c), DecimalPrefix(c))

\* The number x is the fraction v exactly.
IsExactly(x, v) ==
    /\ ~x.nan
    /\ IF x.e >= 0 THEN x.m * Pow2(x.e) * v[2] = v[1]
       ELSE x.m * v[2] = v[1] * Pow2(-x.e)

\* The line ingredient k was taken from, cleaned.
SourceOf(k) == CleanLine(TextLines[ingrSrc[k]])

\* C20 as stated: the quantity of every ingredient is the exact value of
\* the token its line starts with, read as a mixed number first, then as a
\* simple fraction, then as a decimal or an integer.
C20_ExactValue ==
    pc = "ingredients" =>
        \A k \in 1..Len(ingredients) :
            IsExactly(ingredients[k].quantity, ValueOf(SourceOf(k)))

\* The number a token reads as: the fraction n/d rounded to the nearest
\* number, and for a mixed number the whole part plus the rounded fraction,
\* rounded again.
TokenNumber(c, mx, fr) ==
    IF mx.ok
    THEN FAdd(FromInt(DigitsValue(mx.g1)), RoundQ(DigitsValue(mx.g2), DigitsValue(mx.g3), 0))
    ELSE RoundQ(ValueOf(c)[1], ValueOf(c)[2], 0)
NumberOf(c) == TokenNumber(c, MixedPrefix(c), FractionPrefix(c))

\* C20 as amended: the quantity is the number nearest to the value of the
\* token, the token read as a mixed number first, then as a simple
\* fraction, then as a decimal or an integer; it is the exact value when
\* that value is a number. No ingredient comes from a token whose
\* denominator is zero.
C20_NearestValue ==
    pc = "ingredients" =>
        \A k \in 1..Len(ingredients) :
            /\ ValueOf(SourceOf(k))[2] # 0
            /\ ingredients[k].quantity = NumberOf(SourceOf(k))
            /\ IsExactly(RoundQ(ValueOf(SourceOf(k))[1], ValueOf(SourceOf(k))[2], 0),
                         ValueOf(SourceOf(k)))
                   => IsExactly(ingredients[k].quantity, ValueOf(SourceOf(k)))

\* A mixed number was read as another number than the one nearest to its
\* value, next to a token that was read exactly.
C20_Witness ==
    /\ pc = "ingredients"
    /\ \E k \in 1..Len(ingredients) :
           /\ MixedPrefix(SourceOf(k)).ok
           /\ ingredients[k].quantity
                  # RoundQ(ValueOf(SourceOf(k))[1], ValueOf(SourceOf(k))[2], 0)
    /\ \E k \in 1..Len(ingredients) :
           IsExactly(ingredients[k].quantity, ValueOf(SourceOf(k)))

(***************************************************************************)
(* C21 and C22: the unit and the label.                                    *)
(***************************************************************************)
\* What follows the quantity on the line ingredient k was taken from.
RemainderOf(k) == Trim(Drop(SourceOf(k), QuantityMatch(SourceOf(k)).len))

\* The lengths n such that the first n characters of r are a token of the
\* unit vocabulary, whatever the case, that ends at a word boundary.
UnitLengths(r) ==
    {n \in 1..Len(r) :
         /\ \E i \in 1..Len(UNIT_PATTERNS) : PatternLen(UNIT_PATTERNS[i], r) = n
         /\ (n = Len(r) \/ r[n + 1] \notin WordChars)}

\* The label a text gives: the text less a leading "of" with the whitespace
\* behind it.
LabelFrom(t) ==
    IF /\ Len(t) >= 3
       /\ ToLowerCase(Take(t, 2)) = <<"o", "f">>
       /\ t[3] \in WhiteSpace
    THEN Trim(Drop(t, 2))
    ELSE t

\* Ingredient k has the first n characters of its remainder as unit, in
\* lower case, and the rest as label.
UnitRecorded(k, r, n) ==
    /\ ingredients[k].unit = ToLowerCase(Take(r, n))
    /\ ingredients[k].unit = ToLowerCase(ingredients[k].unit)
    /\ ingredients[k].label = LabelFrom(Trim(Drop(r, n)))

\* Ingredient k has no unit and its remainder as label.
NoUnitRecorded(k, r) ==
    /\ ingredients[k].unit = NoUnit
    /\ ingredients[k].label = LabelFrom(r)

BeginsWithOf(s) ==
    /\ Len(s) >= 2
    /\ ToLowerCase(Take(s, 2)) = <<"o", "f">>
    /\ (Len(s) = 2 \/ s[3] \notin WordChars)

\* The line has a quantity, with or without a unit, and nothing behind it.
NoLabelText(line) ==
    LET c == CleanLine(line)
        r == Trim(Drop(c, QuantityMatch(c).len))
    IN  QuantityMatch(c).ok /\ (r = <<>> \/ Len(r) \in UnitLengths(r))

\* C22: every ingredient has a non-empty label without leading or trailing
\* whitespace that does not begin with the word "of", and a line with a
\* quantity, with or without a unit, and no label text gives no ingredient.
C22_LabelClean ==
    pc = "ingredients" =>
        \A k \in 1..Len(ingredients) :
            /\ ingredients[k].label # <<>>
            /\ ingredients[k].label[1] \notin WhiteSpace
            /\ ingredients[k].label[Len(ingredients[k].label)] \notin WhiteSpace
            /\ ~BeginsWithOf(ingredients[k].label)
            /\ ~NoLabelText(TextLines[ingrSrc[k]])

(***************************************************************************)
(* C23 to C25: falling through, the numbered and the bulleted strategy.    *)
(***************************************************************************)
\* The instruction headers of the lines.
StepHeaders(lines) == {i \in 1..Len(lines) : StepHeaderAt(lines, i)}

\* The line after the section under header h: the first end-of-section
\* header behind h, or the end of the text.
SectionStop(lines, h) ==
    IF EndHeaderAfter(lines, h) = 0 THEN Len(lines) + 1 ELSE EndHeaderAfter(lines, h)

\* The section under header h yields no usable step: each of its lines is
\* blank, ingredient-like or without text once cleaned.
EmptySection(lines, h) ==
    \A i \in (h + 1)..(SectionStop(lines, h) - 1) :
        \/ Trim(lines[i]) = <<>>
        \/ IngredientLike(Trim(lines[i]))
        \/ Cleaned(Trim(lines[i])) = <<>>

\* parseSteps has returned what the numbered strategy yields for the whole
\* text and, failing that, what the bulleted strategy yields.
FallbackReturned(lines) ==
    IF Sequential(lines, Candidates(lines))
    THEN ReturnedCleaned(lines, ByNumber(lines, Candidates(lines))) /\ stepVia = "numbered"
    ELSE steps = StepTexts(findBulletedSteps(lines)) /\ stepVia \in {"bulleted", "none"}

\* C23 as stated, of the lines.
FallsThroughOnEmpty(lines) ==
    (\E h \in StepHeaders(lines) : EmptySection(lines, h)) => FallbackReturned(lines)

\* C23 as stated: when an instruction header is found whose section yields
\* no usable step, the result is what the numbered strategy and, failing
\* that, the bulleted strategy yields for the whole text.
C23_FallsThroughOnEmptySection ==
    StepsParsed => FallsThroughOnEmpty(TextLines)

\* C23 as amended, of the lines.
FallsThroughWhenAllEmpty(lines) ==
    (\A h \in StepHeaders(lines) : EmptySection(lines, h)) => FallbackReturned(lines)

\* C23 as amended: when the section of every instruction header found
\* yields no usable step, the result is what the numbered strategy and,
\* failing that, the bulleted strategy yields for the whole text.
C23_FallsThroughWhenNoSectionYields ==
    StepsParsed => FallsThroughWhenAllEmpty(TextLines)

\* An instruction header with an empty section, and numbered steps returned
\* from the whole text.
EmptyHeaderNumbered(lines) ==
    /\ StepHeaders(lines) # {}
    /\ \A h \in StepHeaders(lines) : EmptySection(lines, h)
    /\ stepVia = "numbered"
    /\ steps # <<>>

C23_Witness ==
    StepsParsed /\ EmptyHeaderNumbered(TextLines)

\* findNumberedSteps was applied to the lines of the text.
NumberedApplied == pc = "found" /\ stepVia = "numbered"

\* The lowest number among the lines S is 1 or 2.
StartsAtOneOrTwo(lines, S) ==
    /\ \E i \in S : NumberAt(lines, i) \in {1, 2}
    /\ \A i \in S : NumberAt(lines, i) >= 1

\* C24 as stated, of the lines.
AcceptedFromOneOrTwo(lines) ==
    IF Cardinality(Candidates(lines)) >= 2 /\ StartsAtOneOrTwo(lines, Candidates(lines))
    THEN ReturnedCleaned(lines, ByNumber(lines, Candidates(lines)))
    ELSE steps = <<>>

\* C24 as stated: the numbered strategy yields its lines only if it
\* collected two at least and the lowest number collected is 1 or 2, and
\* yields nothing otherwise.
C24_LowestIsOneOrTwo ==
    NumberedApplied => AcceptedFromOneOrTwo(TextLines)

\* C24 as amended, of the lines.
AcceptedUpToTwo(lines) ==
    IF Sequential(lines, Candidates(lines))
    THEN ReturnedCleaned(lines, ByNumber(lines, Candidates(lines)))
    ELSE steps = <<>>

\* C24 as amended: the numbered strategy yields its lines only if it
\* collected two at least and the lowest number collected is at most 2 (0,
\* 1 or 2), and yields nothing otherwise.
C24_LowestAtMostTwo ==
    NumberedApplied => AcceptedUpToTwo(TextLines)

\* Lines numbered from 0 were accepted.
C24_Witness ==
    /\ NumberedApplied
    /\ steps # <<>>
    /\ \E k \in 1..Len(stepSrc) : NumberAt(TextLines, stepSrc[k]) = 0

\* findBulletedSteps was applied to the lines of the text.
BulletedApplied == pc = "found" /\ stepVia = "bulleted"

\* Line i is not bulleted.
NotBulleted(lines, i) == ~BulletMatch(Trim(lines[i]))

\* Lines j and j + 1 are an interruption: two non-bulleted lines in a row
\* behind an accepted bulleted line.
Interruption(lines, j) ==
    /\ j + 1 <= Len(lines)
    /\ NotBulleted(lines, j)
    /\ NotBulleted(lines, j + 1)
    /\ \E i \in BulletCandidates(lines) : i < j

\* C25 as stated: no step comes from a line behind an interruption of two
\* or more non-bulleted lines in a row that follows an accepted bulleted
\* line.
C25_InterruptionEndsRun ==
    BulletedApplied =>
        \A k \in 1..Len(stepSrc) :
            \A j \in 1..Len(TextLines) : Interruption(TextLines, j) => stepSrc[k] < j

\* The last line before j that is neither blank nor bulleted, 0 when there
\* is none.
LastPlain(lines, j) ==
    LET ps == {i \in 1..(j - 1) : Trim(lines[i]) # <<>> /\ NotBulleted(lines, i)}
    IN  IF ps = {} THEN 0 ELSE CHOOSE i \in ps : \A i2 \in ps : i2 <= i

\* The blank lines reached with two or more bulleted steps accepted since
\* the last line that is neither blank nor bulleted.
BreakLines(lines) ==
    {j \in 1..Len(lines) :
         /\ Trim(lines[j]) = <<>>
         /\ Cardinality({i \in BulletCandidates(lines) : LastPlain(lines, j) < i /\ i < j}) >= 2}

\* The accepted bulleted lines before the first such blank line.
BulletsTaken(lines) ==
    {i \in BulletCandidates(lines) : \A j \in BreakLines(lines) : i < j}

\* C25 as amended, of the lines.
RunEndsAtBlank(lines) ==
    IF Cardinality(BulletsTaken(lines)) >= 2
    THEN ReturnedCleaned(lines, Ascending(BulletsTaken(lines)))
    ELSE steps = <<>>

\* C25 as amended: lines that are not bulleted do not end the run, and the
\* bulleted lines behind them are added; the run ends at the first blank
\* line reached with two or more bulleted steps accepted since the last
\* line that is neither blank nor bulleted, and no bulleted line behind
\* that blank line is added.
C25_BlankLineEndsRun ==
    BulletedApplied => RunEndsAtBlank(TextLines)

\* A bulleted step was returned from behind two numbered lines in a row
\* that follow a bulleted step.
C25_Witness ==
    /\ BulletedApplied
    /\ \E k \in 1..Len(stepSrc) :
           \E j \in 1..Len(TextLines) :
               /\ Interruption(TextLines, j)
               /\ Trim(TextLines[j]) # <<>>
               /\ Trim(TextLines[j + 1]) # <<>>
               /\ stepSrc[k] > j + 1

(***************************************************************************)
(* Claims about the screens that scale.                                    *)
(***************************************************************************)
\* The list shown is scaleIngredients of the list in state with the counts
\* in state.
ShownFromOriginal ==
    pc = "screen" =>
        scaled.items = scaleIngredients(recipe, originalServings, targetServings,
                                        scaled.ref).items

\* C26: after any changes of the original and the target serving count the
\* list shown is scaleIngredients applied to the original parsed list with
\* the counts in state, never to a list scaled before, and the changes
\* leave the original list as it was.
C26_ScaledFromOriginal ==
    /\ []ShownFromOriginal
    /\ [][pc = "screen" => recipe' = recipe]_vars

\* Both counts were changed, and the list shown differs from the original
\* one.
C26_Witness ==
    /\ pc = "screen"
    /\ nextRef >= 4
    /\ originalServings # targetServings
    /\ Len(recipe.items) > 0
    /\ \E k \in 1..Len(recipe.items) : scaled.items[k].quantity # recipe.items[k].quantity

(***************************************************************************)
(* Claims about the scan count in the cloud.                               *)
(***************************************************************************)
\* C27: for a signed-in user the count of the cloud row does not go down
\* within a calendar month by a step of getScanStatus, incrementScanCount
\* or syncScanLimitToCloud, also when a cloud read or write fails.
C27_CloudCountNeverDecreases ==
    [][(signedIn /\ cloud'.month = cloud.month) => cloud'.count >= cloud.count]_vars

(***************************************************************************)
(* Claims about useScanner.                                                *)
(***************************************************************************)
\* The handler calls that are inside capture(), between setIsProcessing(true)
\* and setIsProcessing(false).
Capturing == {t \in DOMAIN calls : calls[t].stage = "capture"}

\* C28: at most one capture is in flight at a time: no capture() call
\* starts a photo or an OCR request while another call is still inside
\* capture().
C28_OneCaptureAtATime ==
    Cardinality(Capturing) <= 1

\* Call t leaves capture() in this step.
EndsCapture(t) == calls[t].stage = "capture" /\ calls'[t].stage = "done"

\* The one outcome of the capture that ends is recorded: the recognised
\* text in ocrText and error untouched, or error set and ocrText untouched.
OutcomeRecorded(t) ==
    /\ isProcessing' = FALSE
    /\ calls'[t].outcome \in {"ok", "failed"}
    /\ calls'[t].outcome = "ok" =>
          /\ calls'[t].text \in RecognisedTexts
          /\ calls[t].pc = "body"
          /\ scanned'
          /\ ocrText' = calls'[t].text
          /\ scanError' = scanError
    /\ calls'[t].outcome = "failed" =>
          /\ scanError'
          /\ scanned' = scanned
          /\ ocrText' = ocrText

====
